---- MODULE Spec2Model ----
(***************************************************************************)
(* A model of the kea-pd-hook library: the Kea callouts of pd_webhook.cc   *)
(* (load, unload, leases6_committed, lease6_renew), the check-then-create- *)
(* or-update reconciliation against the NetBox REST API in its two         *)
(* implementations (the static functions of pd_webhook.cc and the          *)
(* NetBoxClient class of netbox_client.cc), and the remote inventory and   *)
(* webhook sink they talk to.                                              *)
(*                                                                         *)
(* Text is modelled as a sequence of tokens, so that the substring scans   *)
(* of the code (find "\"count\":0", find "\"id\":", find ",") are scans    *)
(* of a sequence.  A token is a record [k, n]: k the token's text, n the   *)
(* number it stands for when k = "num".                                    *)
(***************************************************************************)
EXTENDS Integers, Sequences, FiniteSets, TLC

(***************************************************************************)
(* Bounds of the model.                                                    *)
(***************************************************************************)
\* callout invocations in one behaviour
MaxEvents == 2
\* leases in one leases6 collection
MaxLeases == 2

(***************************************************************************)
(* DHCPv6 message types.                                                   *)
(***************************************************************************)
DHCPV6_SOLICIT == 1
DHCPV6_REQUEST == 3
DHCPV6_CONFIRM == 4
DHCPV6_RENEW == 5
DHCPV6_REPLY == 7
DHCPV6_RELEASE == 8
DHCPV6_DECLINE == 9
DHCPV6_INFORMATION_REQUEST == 11

MsgTypes ==
    { DHCPV6_SOLICIT, DHCPV6_REQUEST, DHCPV6_CONFIRM, DHCPV6_RENEW,
      DHCPV6_RELEASE, DHCPV6_DECLINE, DHCPV6_INFORMATION_REQUEST }

(***************************************************************************)
(* Tokens of HTTP bodies.                                                  *)
(***************************************************************************)
Sym(s) == [k |-> s, n |-> 0]
Num(i) == [k |-> "num", n |-> i]

K_ID == Sym("\"id\":")
K_COUNT == Sym("\"count\":")
K_RESULTS == Sym("\"results\":")
COMMA == Sym(",")

\* std::string::npos
npos == 0

\* std::string::find(tok, from) on a token sequence: the first position
\* >= from holding tok, npos when there is none.
Find(body, tok, from) ==
    LET hits == { i \in from..Len(body) : body[i] = tok }
    IN  IF hits = {} THEN npos
        ELSE CHOOSE i \in hits : \A j \in hits : i <= j

\* response.find("\"count\":0"): the key directly followed by a number whose
\* text starts with the digit 0, which for a JSON number is the number 0.
FindCountZero(body) ==
    LET hits == { i \in 1..(Len(body) - 1) :
                    body[i] = K_COUNT /\ body[i + 1] = Num(0) }
    IN  IF hits = {} THEN npos
        ELSE CHOOSE i \in hits : \A j \in hits : i <= j

\* std::stoi of a piece of text: the leading number, or an exception
\* (std::invalid_argument) when the text does not start with one.
stoi(text) ==
    IF text # <<>> /\ text[1].k = "num"
    THEN [thrown |-> FALSE, val |-> text[1].n]
    ELSE [thrown |-> TRUE, val |-> 0]

(***************************************************************************)
(* Hex encoding of a byte sequence (the DUID).                             *)
(***************************************************************************)
HexDigits ==
    << "0", "1", "2", "3", "4", "5", "6", "7",
       "8", "9", "a", "b", "c", "d", "e", "f" >>

RECURSIVE toHex(_)
toHex(data) ==
    IF data = <<>> THEN <<>>
    ELSE << HexDigits[(data[1] \div 16) + 1], HexDigits[(data[1] % 16) + 1] >>
         \o toHex(Tail(data))

(***************************************************************************)
(* Runtime configuration.  A URL or token is a sequence of text pieces,    *)
(* the empty sequence being the empty string.                              *)
(***************************************************************************)
DefaultTimeoutMs == 2000

WebhookConfig ==
    [ url |-> <<>>, timeout_ms |-> DefaultTimeoutMs, enabled |-> FALSE,
      debug |-> FALSE, netbox_url |-> <<>>, netbox_token |-> <<>>,
      netbox_enabled |-> FALSE ]

Host == "https://netbox.example"
HookUrl == << "https://hook.example/pd" >>
Token == << "0123abcd" >>

\* The last character of a non-empty text is '/'.
EndsWithSlash(text) == text[Len(text)] \in { "/", "api/" }

\* Elements of the hooks-libraries[].parameters map.
StrEl(s) == [type |-> "string", s |-> s]
IntEl(i) == [type |-> "integer", i |-> i]
BoolEl(b) == [type |-> "boolean", b |-> b]

Params(m) == [is_map |-> TRUE, m |-> m]
NullParams == [is_map |-> FALSE, m |-> << >>]

\* params->get(key) has the given type
HasTyped(params, key, type) ==
    /\ params.is_map
    /\ key \in DOMAIN params.m
    /\ params.m[key].type = type

\* The parameter maps load is given.
ParamMaps ==
    { NullParams,
      Params([x \in {} |-> 0]),
      Params([x \in {"webhook-url"} |-> StrEl(HookUrl)]),
      Params("netbox-url" :> StrEl(<<Host>>) @@ "netbox-token" :> StrEl(Token)
             @@ "netbox-enabled" :> BoolEl(TRUE)),
      Params("netbox-url" :> StrEl(<<Host, "/", "api/">>)
             @@ "netbox-token" :> StrEl(Token)
             @@ "netbox-enabled" :> BoolEl(TRUE)),
      Params("webhook-url" :> StrEl(HookUrl) @@ "netbox-url" :> StrEl(<<Host, "/">>)
             @@ "netbox-token" :> StrEl(Token)
             @@ "netbox-enabled" :> BoolEl(TRUE) @@ "debug" :> BoolEl(TRUE)),
      Params("netbox-url" :> StrEl(<<Host>>) @@ "netbox-enabled" :> BoolEl(TRUE)),
      Params("webhook-url" :> StrEl(HookUrl) @@ "netbox-url" :> StrEl(<<Host>>)
             @@ "netbox-token" :> StrEl(Token)
             @@ "netbox-enabled" :> StrEl(<<"true">>)) }

\* load() leaving netbox_enabled as the parameter map has it.
LoadedConfig_Unnormalised(params) ==
    LET d == WebhookConfig
        url == IF HasTyped(params, "webhook-url", "string")
               THEN params.m["webhook-url"].s ELSE d.url
        timeout_ms ==
            IF /\ HasTyped(params, "timeout-ms", "integer")
               /\ params.m["timeout-ms"].i > 0
            THEN params.m["timeout-ms"].i ELSE d.timeout_ms
        netbox_url == IF HasTyped(params, "netbox-url", "string")
                      THEN params.m["netbox-url"].s ELSE d.netbox_url
        netbox_token == IF HasTyped(params, "netbox-token", "string")
                        THEN params.m["netbox-token"].s ELSE d.netbox_token
        netbox_enabled == IF HasTyped(params, "netbox-enabled", "boolean")
                          THEN params.m["netbox-enabled"].b ELSE d.netbox_enabled
        debug == IF HasTyped(params, "debug", "boolean")
                 THEN params.m["debug"].b ELSE d.debug
    IN  [ url |-> url, timeout_ms |-> timeout_ms,
          enabled |-> (url # <<>>) \/ netbox_enabled,
          debug |-> debug, netbox_url |-> netbox_url,
          netbox_token |-> netbox_token,
          netbox_enabled |-> netbox_enabled ]

\* load() taking any integer for the timeout.
LoadedConfig_AnyTimeout(params) ==
    LET d == WebhookConfig
        url == IF HasTyped(params, "webhook-url", "string")
               THEN params.m["webhook-url"].s ELSE d.url
        timeout_ms ==
            IF HasTyped(params, "timeout-ms", "integer")
            THEN params.m["timeout-ms"].i ELSE d.timeout_ms
        netbox_url == IF HasTyped(params, "netbox-url", "string")
                      THEN params.m["netbox-url"].s ELSE d.netbox_url
        netbox_token == IF HasTyped(params, "netbox-token", "string")
                        THEN params.m["netbox-token"].s ELSE d.netbox_token
        netbox_enabled == IF HasTyped(params, "netbox-enabled", "boolean")
                          THEN params.m["netbox-enabled"].b ELSE d.netbox_enabled
        debug == IF HasTyped(params, "debug", "boolean")
                 THEN params.m["debug"].b ELSE d.debug
    IN  [ url |-> url, timeout_ms |-> timeout_ms,
          enabled |-> (url # <<>>) \/ netbox_enabled,
          debug |-> debug, netbox_url |-> netbox_url,
          netbox_token |-> netbox_token,
          netbox_enabled |-> netbox_enabled /\ netbox_url # <<>>
                             /\ netbox_token # <<>> ]

\* load(): the configuration it leaves in g_cfg.
LoadedConfig(params) ==
    LET d == WebhookConfig
        url == IF HasTyped(params, "webhook-url", "string")
               THEN params.m["webhook-url"].s ELSE d.url
        timeout_ms ==
            IF /\ HasTyped(params, "timeout-ms", "integer")
               /\ params.m["timeout-ms"].i > 0
            THEN params.m["timeout-ms"].i ELSE d.timeout_ms
        netbox_url == IF HasTyped(params, "netbox-url", "string")
                      THEN params.m["netbox-url"].s ELSE d.netbox_url
        netbox_token == IF HasTyped(params, "netbox-token", "string")
                        THEN params.m["netbox-token"].s ELSE d.netbox_token
        netbox_enabled == IF HasTyped(params, "netbox-enabled", "boolean")
                          THEN params.m["netbox-enabled"].b ELSE d.netbox_enabled
        debug == IF HasTyped(params, "debug", "boolean")
                 THEN params.m["debug"].b ELSE d.debug
    IN  [ url |-> url, timeout_ms |-> timeout_ms,
          enabled |-> (url # <<>>) \/ netbox_enabled,
          debug |-> debug, netbox_url |-> netbox_url,
          netbox_token |-> netbox_token,
          netbox_enabled |-> netbox_enabled /\ netbox_url # <<>>
                             /\ netbox_token # <<>> ]

(***************************************************************************)
(* The remote inventory (NetBox): a sequence of prefix records in the      *)
(* order of their creation, a record's id being its position.  The REST    *)
(* resource answers a search by prefix, a create and a partial update.     *)
(* An inventory is set up to refuse a second record of a prefix, or not.   *)
(***************************************************************************)
VARIABLE unique  \* the inventory refuses a second record of a prefix

LB == Sym("{")
RB == Sym("}")

ApiBase == << Host, "/", "api/" >>

SearchEndpoint(prefix, prefix_length) ==
    [kind |-> "search", id |-> 0, prefix |-> prefix, len |-> prefix_length]
ItemEndpoint(prefix_id) ==
    [kind |-> "item", id |-> prefix_id, prefix |-> "", len |-> 0]
CollectionEndpoint ==
    [kind |-> "collection", id |-> 0, prefix |-> "", len |-> 0]

NoPayload == [empty |-> TRUE]

\* The JSON of one record; the fields after "id" are abridged to the prefix
\* and the status.
RenderRecord(r) ==
    << LB, K_ID, Num(r.id), COMMA, Sym("\"prefix\":"), Sym(r.prefix.addr),
       Sym("/"), Num(r.prefix.len), COMMA, Sym("\"status\":"), Sym(r.status),
       RB >>

RECURSIVE RenderRecords(_)
RenderRecords(rs) ==
    IF rs = <<>> THEN <<>>
    ELSE IF Len(rs) = 1 THEN RenderRecord(rs[1])
    ELSE RenderRecord(rs[1]) \o <<COMMA>> \o RenderRecords(Tail(rs))

\* {"count":N,"next":null,"previous":null,"results":[...]}
RenderList(rs) ==
    << LB, K_COUNT, Num(Len(rs)), COMMA, Sym("\"next\":"), Sym("null"), COMMA,
       Sym("\"previous\":"), Sym("null"), COMMA, K_RESULTS, Sym("[") >>
    \o RenderRecords(rs) \o << Sym("]"), RB >>

\* {"detail":"Not found."}: an HTTP error answered with a JSON body
ErrorBody == << LB, Sym("\"detail\":"), Sym("\"Not found.\""), RB >>

\* {"jsonrpc":"2.0","id":null,"error":"..."}: the body of a service that is
\* not the inventory API
ForeignBody ==
    << LB, Sym("\"jsonrpc\":"), Sym("\"2.0\""), COMMA, K_ID, Sym("null"), COMMA,
       Sym("\"error\":"), Sym("\"bad request\""), RB >>

\* {"prefix":["Duplicate prefix found"]}: a create the inventory refuses
DuplicateBody == << LB, Sym("\"prefix\":"), Sym("[\"Duplicate prefix found\"]"), RB >>

\* A partial update replaces the fields the body names and no other.
ApplyPatch(r, payload) ==
    [f \in DOMAIN r |-> IF f \in DOMAIN payload THEN payload[f] ELSE r[f]]

\* The inventory with record r stored under id, answered with the record.
Stored(inv, id, r) ==
    [ inventory |-> [ i \in 1..(IF id > Len(inv) THEN id ELSE Len(inv)) |->
                        IF i = id THEN r ELSE inv[i] ],
      body |-> RenderRecord(r) ]

\* What the API does with a request that reached it.
RemoteHandle(inv, method, ep, payload) ==
    IF method = "GET" /\ ep.kind = "search" THEN
        [ inventory |-> inv,
          body |-> RenderList(SelectSeq(inv,
                      LAMBDA r : r.prefix = [addr |-> ep.prefix, len |-> ep.len])) ]
    ELSE IF /\ method = "POST" /\ ep.kind = "collection" /\ unique
            /\ \E i \in 1..Len(inv) : inv[i].prefix = payload.prefix THEN
        [inventory |-> inv, body |-> DuplicateBody]
    ELSE IF method = "POST" /\ ep.kind = "collection" THEN
        Stored(inv, Len(inv) + 1,
               [ id |-> Len(inv) + 1, prefix |-> payload.prefix,
                 status |-> payload.status,
                 description |-> payload.description,
                 custom_fields |-> payload.custom_fields ])
    ELSE IF method = "PATCH" /\ ep.kind = "item" /\ ep.id \in 1..Len(inv) THEN
        Stored(inv, ep.id, ApplyPatch(inv[ep.id], payload))
    ELSE [inventory |-> inv, body |-> ErrorBody]

\* Where a URL leads: to the API, to the host but no API resource, or to no
\* host at all (the host name runs into the path).
Route(base) ==
    IF base = ApiBase THEN "api"
    ELSE IF Len(base) >= 2 /\ base[1] = Host /\ base[2] = "/" THEN "not_found"
    ELSE "no_host"

\* What one transfer can come to.
NetOutcomes ==
    { "ok", "lost_request", "lost_response", "error_body", "foreign_body" }

\* The transfer of a request the API handled: a response that is lost on
\* its way back leaves the caller with a failed transfer.
Handled(outcome, h) ==
    [ response |-> IF outcome = "lost_response" THEN <<>> ELSE h.body,
      inventory |-> h.inventory ]

\* curl_easy_perform: the response text ("" when res != CURLE_OK) and the
\* inventory after the transfer.
Perform(base, method, ep, payload, outcome, inv) ==
    IF outcome = "lost_request" \/ Route(base) = "no_host" THEN
        [response |-> <<>>, inventory |-> inv]
    ELSE IF outcome = "error_body" \/ Route(base) = "not_found" THEN
        [response |-> ErrorBody, inventory |-> inv]
    ELSE IF outcome = "foreign_body" THEN
        [response |-> ForeignBody, inventory |-> inv]
    ELSE Handled(outcome, RemoteHandle(inv, method, ep, payload))

\* A transfer with the request that was put on the wire for it.
Sent(x, op) ==
    [response |-> x.response, inventory |-> x.inventory, ops |-> <<op>>]

\* The record of one request put on the wire.
Op(sink, method, base, ep, payload, timeout_ms) ==
    [ sink |-> sink, method |-> method, base |-> base, ep |-> ep,
      payload |-> payload, timeout_ms |-> timeout_ms ]

(***************************************************************************)
(* Addresses.  An IPv6 address is its 16 bytes; the text of an address is  *)
(* a sequence of characters.                                               *)
(***************************************************************************)
\* The 16 bytes of the address with the given eight 16-bit groups.
AddrOf(groups) ==
    [ i \in 1..16 |-> IF i % 2 = 1 THEN groups[(i + 1) \div 2] \div 256
                      ELSE groups[i \div 2] % 256 ]

\* The eight 16-bit groups of 16 bytes.
GroupsOf(bytes) == [ k \in 1..8 |-> bytes[2 * k - 1] * 256 + bytes[2 * k] ]

\* IOAddress::isV6Zero
isV6Zero(addr) == \A i \in 1..16 : addr[i] = 0

\* std::string::find(prefix) == 0
StartsWith(text, prefix) ==
    /\ Len(text) >= Len(prefix)
    /\ SubSeq(text, 1, Len(prefix)) = prefix

FE80 == << "f", "e", "8", "0" >>
FE80CC == << "f", "e", "8", "0", ":", ":" >>
FF == << "f", "f" >>
P2001C == << "2", "0", "0", "1", ":" >>
CC == << ":", ":" >>
Unknown == << "u", "n", "k", "n", "o", "w", "n" >>

\* operator<< of an unsigned int under std::hex: no leading zeros.
RECURSIVE Hex(_)
Hex(n) ==
    IF n < 16 THEN << HexDigits[n + 1] >>
    ELSE Hex(n \div 16) \o << HexDigits[(n % 16) + 1] >>

\* operator<< under std::hex, std::setw(2), std::setfill('0').
Hex2(b) == << HexDigits[(b \div 16) + 1], HexDigits[(b % 16) + 1] >>

\* The loops that print 16 bytes as an address: the first byte without a
\* width, a ':' before every other even byte, every other byte two wide.
RECURSIVE StreamBytes(_, _)
StreamBytes(bytes, j) ==
    IF j > 15 THEN <<>>
    ELSE (IF j = 0 THEN Hex(bytes[1])
          ELSE IF j % 2 = 0 THEN << ":" >> \o Hex2(bytes[j + 1])
          ELSE Hex2(bytes[j + 1]))
         \o StreamBytes(bytes, j + 1)

StreamText(bytes) == StreamBytes(bytes, 0)

\* The value of a run of hex digits.
RECURSIVE HexValue(_, _)
HexValue(digits, acc) ==
    IF digits = <<>> THEN acc
    ELSE HexValue(Tail(digits),
                  acc * 16 + (CHOOSE d \in 0..15 : HexDigits[d + 1] = digits[1]))

\* The groups of a text of ':'-separated runs of hex digits.
RECURSIVE SplitGroups(_, _)
SplitGroups(text, run) ==
    IF text = <<>> THEN << run >>
    ELSE IF text[1] = ":" THEN << run >> \o SplitGroups(Tail(text), <<>>)
    ELSE SplitGroups(Tail(text), Append(run, text[1]))

\* IOAddress(text) for a text in full form (eight groups, no "::"): the
\* bytes, or an exception when the text is no such address.
IOAddress(text) ==
    LET runs == SplitGroups(text, <<>>)
        ok == /\ Len(runs) = 8
              /\ \A k \in 1..8 :
                    /\ Len(runs[k]) \in 1..4
                    /\ \A i \in 1..Len(runs[k]) :
                          \E d \in 0..15 : HexDigits[d + 1] = runs[k][i]
    IN  IF ok
        THEN [thrown |-> FALSE,
              addr |-> AddrOf([k \in 1..8 |-> HexValue(runs[k], 0)])]
        ELSE [thrown |-> TRUE, addr |-> AddrOf([k \in 1..8 |-> 0])]

\* The length of the run of zero groups that starts at group i.
RECURSIVE ZeroRun(_, _)
ZeroRun(groups, i) ==
    IF i > 8 \/ groups[i] # 0 THEN 0 ELSE 1 + ZeroRun(groups, i + 1)

\* Groups from..to as text, ':' between them.
RECURSIVE JoinGroups(_, _, _)
JoinGroups(groups, from, to) ==
    IF from > to THEN <<>>
    ELSE Hex(groups[from])
         \o (IF from < to THEN << ":" >> ELSE <<>>)
         \o JoinGroups(groups, from + 1, to)

\* The leftmost longest run of zero groups from group i on, best being
\* the longest before i.
RECURSIVE LongestRun(_, _, _)
LongestRun(groups, i, best) ==
    IF i > 8 THEN best
    ELSE IF ZeroRun(groups, i) > best.len
    THEN LongestRun(groups, i + 1, [base |-> i, len |-> ZeroRun(groups, i)])
    ELSE LongestRun(groups, i + 1, best)

\* The text of groups with the run best written "::" when it is two or
\* more groups long.
CompressedText(groups, best) ==
    IF best.len < 2 THEN JoinGroups(groups, 1, 8)
    ELSE JoinGroups(groups, 1, best.base - 1) \o CC
         \o JoinGroups(groups, best.base + best.len, 8)

\* IOAddress::toText (inet_ntop): groups without leading zeros, the
\* leftmost longest run of two or more zero groups written "::".
toText(addr) ==
    CompressedText(GroupsOf(addr),
                   LongestRun(GroupsOf(addr), 1, [base |-> 0, len |-> 0]))

(***************************************************************************)
(* Packets and leases the host hands to the callouts.                      *)
(***************************************************************************)
NoOption == [present |-> FALSE, data |-> <<>>]
\* DUID-LL, hardware type Ethernet, MAC 02:00:00:00:00:01
ClientId == [present |-> TRUE, data |-> <<0, 3, 0, 1, 2, 0, 0, 0, 0, 1>>]

\* The addresses of a directly attached client and of the server.
ClientAddr == AddrOf(<< 65152, 0, 0, 0, 512, 255, 65024, 1 >>)
ServerAddr == AddrOf(<< 8193, 3512, 0, 0, 0, 0, 0, 1 >>)
ZeroAddr == AddrOf(<< 0, 0, 0, 0, 0, 0, 0, 0 >>)

NullPkt ==
    [ null |-> TRUE, type |-> 0, rapid_commit |-> FALSE, clientid |-> NoOption,
      relay_info_ |-> <<>>, relay_msg |-> NoOption,
      remote_addr |-> ZeroAddr, local_addr |-> ZeroAddr ]
\* The queries of a directly attached client.
Queries ==
    [ null : {FALSE}, type : MsgTypes, rapid_commit : BOOLEAN,
      clientid : {NoOption, ClientId},
      relay_info_ : {<<>>}, relay_msg : {NoOption},
      remote_addr : {ClientAddr}, local_addr : {ServerAddr} ]
ReplyPkt ==
    [ null |-> FALSE, type |-> DHCPV6_REPLY, rapid_commit |-> FALSE,
      clientid |-> NoOption,
      relay_info_ |-> <<>>, relay_msg |-> NoOption,
      remote_addr |-> ClientAddr, local_addr |-> ServerAddr ]

Request == CHOOSE q \in Queries :
               q.type = DHCPV6_REQUEST /\ q.clientid.present /\ ~q.rapid_commit

Lease(type, addr, prefixlen, iaid, valid_lft) ==
    [ null |-> FALSE, type_ |-> type, addr_ |-> addr, prefixlen_ |-> prefixlen,
      iaid_ |-> iaid, duid_ |-> ClientId.data, valid_lft_ |-> valid_lft,
      preferred_lft_ |-> valid_lft \div 2, subnet_id_ |-> 1 ]
NullLease ==
    [ null |-> TRUE, type_ |-> "NA", addr_ |-> "", prefixlen_ |-> 0,
      iaid_ |-> 0, duid_ |-> <<>>, valid_lft_ |-> 0, preferred_lft_ |-> 0,
      subnet_id_ |-> 0 ]

PdLeases ==
    { Lease("PD", "2001:db8:1::", 56, 1, 3600),
      Lease("PD", "2001:db8:2::", 56, 2, 7200) }
Leases ==
    PdLeases \cup { Lease("NA", "2001:db8::10", 128, 1, 3600),
                    Lease("TA", "2001:db8::20", 128, 2, 3600),
                    NullLease }

\* A Lease6Collection: up to MaxLeases leases; the null pointer.
SeqsUpTo(S, n) == UNION { [1..k -> S] : k \in 0..n }
NullCollection == [null |-> TRUE, leases |-> <<>>]
Collections ==
    { [null |-> FALSE, leases |-> ls] : ls \in SeqsUpTo(Leases, MaxLeases) }
    \cup { NullCollection }

(***************************************************************************)
(* pd_webhook.cc: the static reconciliation functions.  Each takes the     *)
(* configuration, the outcome of its one transfer and the inventory, and   *)
(* gives its result with the inventory after it and the requests it put    *)
(* on the wire.                                                            *)
(***************************************************************************)
extractClientDuid(query) ==
    IF query.clientid.present THEN toHex(query.clientid.data) ELSE <<>>

(***************************************************************************)
(* Pkt6::RelayInfo as the byte scans see it: reinterpret_cast of the       *)
(* object to its bytes.  The object holds msg_type_ and hop_count_, the    *)
(* two IOAddress members (each an address family, an IPv4 address, the 16  *)
(* bytes of the IPv6 address and a scope id) and then relay_msg_len_ and   *)
(* the option collection, whose bytes (lengths, pointers of the            *)
(* allocator) are whatever the build and the run make them: rest.          *)
(***************************************************************************)
Zeros(n) == [ i \in 1..n |-> 0 ]

IOAddressBytes(addr) == << 1, 0, 0, 0 >> \o Zeros(4) \o addr \o Zeros(8)

RelayInfoBytes(relay) ==
    << relay.msg_type_, relay.hop_count_ >> \o Zeros(6)
    \o IOAddressBytes(relay.link_addr_) \o IOAddressBytes(relay.peer_addr_)
    \o relay.rest

\* The 16 bytes of an image from offset i (counted from 0).
Window(bytes, i) == SubSeq(bytes, i + 1, i + 16)

\* relay_bytes[i] == 0xfe && relay_bytes[i+1] == 0x80
IsFe80At(bytes, i) ==
    /\ i >= 0 /\ i + 1 < Len(bytes)
    /\ bytes[i + 1] = 254 /\ bytes[i + 2] = 128

\* The text of an address read back through IOAddress, as the scans do:
\* the compressed text, or the text as printed when IOAddress throws.
Compressed(text) ==
    IF IOAddress(text).thrown THEN text ELSE toText(IOAddress(text).addr)

\* extractCpeLinkLocal, the scan of RelayInfo for fe80: the text of the 16
\* bytes at the first offset that holds fe 80 and leaves room for them;
\* the empty text when there is none.
ScanPeerAddress(bytes) ==
    LET hits == { i \in 0..(Len(bytes) - 2) :
                    IsFe80At(bytes, i) /\ i + 16 <= Len(bytes) }
    IN  IF hits = {} THEN <<>>
        ELSE Compressed(StreamText(Window(bytes,
                 CHOOSE i \in hits : \A j \in hits : i <= j)))

\* The EUI-64 link-local text of a client identifier, the empty text when
\* the DUID carries no Ethernet address.
DuidLinkLocal(clientid) ==
    LET data == clientid.data
        duid_type == data[1] * 256 + data[2]
        hw_type == data[3] * 256 + data[4]
        mac_offset == IF duid_type = 1 THEN 8 ELSE 4
        mac == [ i \in 1..6 |-> data[mac_offset + i] ]
        \* mac[0] ^= 0x02
        first == IF (mac[1] \div 2) % 2 = 1 THEN mac[1] - 2 ELSE mac[1] + 2
    IN  IF ~clientid.present \/ Len(data) < 8 THEN <<>>
        ELSE IF duid_type # 1 /\ duid_type # 3 THEN <<>>
        ELSE IF hw_type # 1 THEN <<>>
        ELSE IF Len(data) < mac_offset + 6 THEN <<>>
        ELSE FE80CC \o Hex2(first) \o Hex2(mac[2]) \o << ":" >>
             \o Hex2(mac[3]) \o << "f", "f" >> \o << ":", "f", "e" >>
             \o Hex2(mac[4]) \o << ":" >> \o Hex2(mac[5]) \o Hex2(mac[6])

DHCPV6_RELAY_FORW == 12
DHCPV6_RELAY_REPL == 13

\* extractCpeLinkLocal, the second source: peer_address after it and
\* whether the function returns it there.
PeerFromPacket(query) ==
    IF query.type \in {DHCPV6_RELAY_FORW, DHCPV6_RELAY_REPL}
    THEN IF ~isV6Zero(query.remote_addr)
         THEN [ peer_address |-> toText(query.remote_addr),
                returns |-> StartsWith(toText(query.remote_addr), FE80CC) ]
         ELSE [ peer_address |-> <<>>, returns |-> FALSE ]
    ELSE IF query.relay_msg.present /\ Len(query.relay_msg.data) >= 34
         THEN [ peer_address |->
                    StreamText(SubSeq(query.relay_msg.data, 19, 34)),
                returns |->
                    StartsWith(StreamText(SubSeq(query.relay_msg.data, 19, 34)),
                               FE80) ]
         ELSE [ peer_address |-> <<>>, returns |-> FALSE ]

\* extractCpeLinkLocal from the CLIENTID fallback on, peer_address being
\* what the packet gave.
CpeFallback(query, peer_address) ==
    IF /\ DuidLinkLocal(query.clientid) # <<>>
       /\ (peer_address = <<>> \/ ~StartsWith(peer_address, FE80))
    THEN DuidLinkLocal(query.clientid)
    ELSE IF peer_address # <<>> THEN peer_address
    ELSE IF /\ ~isV6Zero(query.remote_addr)
            /\ StartsWith(toText(query.remote_addr), FE80CC)
    THEN toText(query.remote_addr)
    ELSE Unknown

extractCpeLinkLocal(query) ==
    LET scanned == IF query.relay_info_ # <<>>
                   THEN ScanPeerAddress(RelayInfoBytes(query.relay_info_[1]))
                   ELSE <<>>
        packet == PeerFromPacket(query)
    IN  IF scanned # <<>> THEN scanned
        ELSE IF packet.returns THEN packet.peer_address
        ELSE CpeFallback(query, packet.peer_address)

extractRouterIp(query) ==
    IF query.relay_msg.present /\ ~isV6Zero(query.remote_addr)
    THEN toText(query.remote_addr)
    ELSE IF /\ ~isV6Zero(query.remote_addr)
            /\ ~StartsWith(toText(query.remote_addr), FE80CC)
    THEN toText(query.remote_addr)
    ELSE Unknown

\* extractRouterLinkAddr, the test of one offset of the scan: a first byte
\* 0x20, 0x30 or 0x02 with room for 16 bytes, no fe 80 within ten bytes,
\* and an address whose text starts "2001:".
IsLinkAddrAt(bytes, i) ==
    /\ bytes[i + 1] \in {32, 48, 2}
    /\ i + 16 <= Len(bytes)
    /\ ~\E check \in -10..10 : IsFe80At(bytes, i + check)
    /\ LET formatted_addr == Compressed(StreamText(Window(bytes, i)))
       IN  /\ ~IOAddress(StreamText(Window(bytes, i))).thrown
           /\ ~StartsWith(formatted_addr, FE80CC)
           /\ formatted_addr # CC
           /\ ~StartsWith(formatted_addr, FF)
           /\ StartsWith(formatted_addr, P2001C)

\* extractRouterLinkAddr, the scan of RelayInfo.
ScanLinkAddress(bytes) ==
    LET hits == { i \in 0..(Len(bytes) - 2) : IsLinkAddrAt(bytes, i) }
    IN  IF hits = {} THEN <<>>
        ELSE Compressed(StreamText(Window(bytes,
                 CHOOSE i \in hits : \A j \in hits : i <= j)))

\* extractRouterLinkAddr, the link-address of the RELAY_MSG option: bytes
\* 16-31, accepted unless link-local, unspecified or multicast.
LinkFromRelayMsg(query) ==
    IF query.relay_msg.present /\ Len(query.relay_msg.data) >= 34
    THEN LET link_address == StreamText(SubSeq(query.relay_msg.data, 17, 32))
             formatted_addr == Compressed(link_address)
         IN  IF /\ ~IOAddress(link_address).thrown
                /\ ~StartsWith(formatted_addr, FE80CC)
                /\ formatted_addr # CC
                /\ ~StartsWith(formatted_addr, FF)
             THEN formatted_addr
             ELSE <<>>
    ELSE <<>>

\* extractRouterLinkAddr, the fallback to the packet's local address.
LinkFromLocal(query) ==
    IF /\ ~isV6Zero(query.local_addr)
       /\ ~StartsWith(toText(query.local_addr), FE80CC)
       /\ toText(query.local_addr) # CC
    THEN toText(query.local_addr)
    ELSE Unknown

extractRouterLinkAddr(query) ==
    LET scanned == IF query.relay_info_ # <<>>
                   THEN ScanLinkAddress(RelayInfoBytes(query.relay_info_[1]))
                   ELSE <<>>
        option == IF query.relay_info_ # <<>>
                  THEN LinkFromRelayMsg(query) ELSE <<>>
    IN  IF query.null THEN Unknown
        ELSE IF scanned # <<>> THEN scanned
        ELSE IF option # <<>> THEN option
        ELSE LinkFromLocal(query)

buildAssignmentData(query, lease) ==
    [ client_duid |-> extractClientDuid(query),
      prefix |-> lease.addr_,
      prefix_length |-> lease.prefixlen_,
      iaid |-> lease.iaid_,
      cpe_link_local |-> extractCpeLinkLocal(query),
      router_ip |-> extractRouterIp(query),
      router_link_addr |-> extractRouterLinkAddr(query) ]

\* full_url: the base URL, a '/' unless it ends with one, and "api/"
FullUrl(netbox_url) ==
    (IF EndsWithSlash(netbox_url) THEN netbox_url ELSE netbox_url \o <<"/">>)
    \o <<"api/">>

\* netboxHttpRequest sending its request a second time when the transfer
\* failed.
netboxHttpRequest_Retrying(cfg, method, endpoint, data, outcome, inv) ==
    LET op == Op("netbox", method, FullUrl(cfg.netbox_url), endpoint, data,
                 cfg.timeout_ms)
        x == Perform(FullUrl(cfg.netbox_url), method, endpoint, data, outcome, inv)
        y == Perform(FullUrl(cfg.netbox_url), method, endpoint, data, "ok",
                     x.inventory)
    IN  IF ~cfg.netbox_enabled \/ cfg.netbox_url = <<>> \/ cfg.netbox_token = <<>>
        THEN [response |-> <<>>, inventory |-> inv, ops |-> <<>>]
        ELSE IF x.response # <<>> THEN Sent(x, op)
        ELSE [response |-> y.response, inventory |-> y.inventory,
              ops |-> <<op, op>>]

netboxHttpRequest(cfg, method, endpoint, data, outcome, inv) ==
    IF ~cfg.netbox_enabled \/ cfg.netbox_url = <<>> \/ cfg.netbox_token = <<>>
    THEN [response |-> <<>>, inventory |-> inv, ops |-> <<>>]
    ELSE Sent(Perform(FullUrl(cfg.netbox_url), method, endpoint, data,
                      outcome, inv),
              Op("netbox", method, FullUrl(cfg.netbox_url), endpoint, data,
                 cfg.timeout_ms))

\* The id found in the response of the search; thrown when std::stoi throws.
Returned(val) == [thrown |-> FALSE, val |-> val]

\* findPrefixId from the response on.
ScanPrefixId(response) ==
    IF response = <<>> THEN Returned(-1)
    ELSE IF FindCountZero(response) # npos THEN Returned(-1)
    ELSE IF Find(response, K_ID, 1) = npos THEN Returned(-1)
    ELSE IF Find(response, COMMA, Find(response, K_ID, 1) + 1) = npos
    THEN Returned(-1)
    ELSE stoi(SubSeq(response, Find(response, K_ID, 1) + 1,
                     Find(response, COMMA, Find(response, K_ID, 1) + 1) - 1))

\* The result of a lookup with the transfer x it made.
Looked(r, x) ==
    [thrown |-> r.thrown, val |-> r.val, inventory |-> x.inventory, ops |-> x.ops]

LookedUp(x) == Looked(ScanPrefixId(x.response), x)

\* findPrefixId answering with an id it kept, without a request.
findPrefixId_Remembered(cfg, prefix, prefix_length, outcome, inv) ==
    [thrown |-> FALSE, val |-> 1, inventory |-> inv, ops |-> <<>>]

findPrefixId(cfg, prefix, prefix_length, outcome, inv) ==
    LookedUp(netboxHttpRequest(cfg, "GET", SearchEndpoint(prefix, prefix_length),
                               NoPayload, outcome, inv))

INT_MAX == 2147483647

\* time_t expires_at = now + valid_lft, in the 64 bits of time_t: the sum
\* when it is an int, and how far beyond INT_MAX it is otherwise.
ExpiresAt(time, valid_lft) ==
    IF valid_lft <= INT_MAX - time
    THEN [fits |-> TRUE, n |-> time + valid_lft]
    ELSE [fits |-> FALSE, n |-> valid_lft - (INT_MAX - time)]

\* operator<< of a time_t: the number written, whole.
StreamTime(expires_at) ==
    IF expires_at.fits THEN expires_at.n ELSE [beyond_INT_MAX |-> expires_at.n]

\* static_cast<int>(expires_at): the low 32 bits, as a signed number.
TimeToInt(expires_at) ==
    IF expires_at.fits THEN expires_at.n ELSE (expires_at.n - INT_MAX) - 2

\* The custom fields without the address of the router.
CustomFields_NoRouterIp(data, expires_at) ==
    [ dhcpv6_client_duid |-> data.client_duid,
      dhcpv6_iaid |-> data.iaid,
      dhcpv6_cpe_link_local |-> data.cpe_link_local,
      dhcpv6_router_link_addr |-> data.router_link_addr,
      dhcpv6_leasetime |-> StreamTime(expires_at) ]

\* The JSON object both active writes carry in "custom_fields".
CustomFields(data, expires_at) ==
    [ dhcpv6_client_duid |-> data.client_duid,
      dhcpv6_iaid |-> data.iaid,
      dhcpv6_cpe_link_local |-> data.cpe_link_local,
      dhcpv6_router_ip |-> data.router_ip,
      dhcpv6_router_link_addr |-> data.router_link_addr,
      dhcpv6_leasetime |-> StreamTime(expires_at) ]

\* "DHCPv6 PD assignment - IAID: <iaid>"
Description(iaid) == << "DHCPv6 PD assignment - IAID: ", iaid >>

\* The result of a write with the transfer x it made: true when the
\* response holds "\"id\":".
Written(x) ==
    [ ok |-> x.response # <<>> /\ Find(x.response, K_ID, 1) # npos,
      inventory |-> x.inventory, ops |-> x.ops ]

\* updatePrefix with another status in its body.
updatePrefix_Reserved(cfg, prefix_id, data, valid_lft, time, outcome, inv) ==
    Written(netboxHttpRequest(cfg, "PATCH", ItemEndpoint(prefix_id),
                [ status |-> "reserved",
                  description |-> Description(data.iaid),
                  custom_fields |-> CustomFields(data, ExpiresAt(time, valid_lft)) ],
                outcome, inv))

updatePrefix(cfg, prefix_id, data, valid_lft, time, outcome, inv) ==
    Written(netboxHttpRequest(cfg, "PATCH", ItemEndpoint(prefix_id),
                [ status |-> "active",
                  description |-> Description(data.iaid),
                  custom_fields |-> CustomFields(data, ExpiresAt(time, valid_lft)) ],
                outcome, inv))

\* createPrefix comparing before it writes: when the inventory holds a
\* record of the prefix by now, that record is updated instead.
createPrefix_CompareAndSwap(cfg, data, valid_lft, time, outcome, inv) ==
    LET p == [addr |-> data.prefix, len |-> data.prefix_length]
        m == { i \in 1..Len(inv) : inv[i].prefix = p }
    IN  IF m # {}
        THEN updatePrefix(cfg, CHOOSE i \in m : \A j \in m : i <= j, data,
                          valid_lft, time, outcome, inv)
        ELSE Written(netboxHttpRequest(cfg, "POST", CollectionEndpoint,
                [ prefix |-> p, status |-> "active",
                  description |-> Description(data.iaid),
                  custom_fields |-> CustomFields(data, ExpiresAt(time, valid_lft)) ],
                outcome, inv))

createPrefix(cfg, data, valid_lft, time, outcome, inv) ==
    Written(netboxHttpRequest(cfg, "POST", CollectionEndpoint,
                [ prefix |-> [addr |-> data.prefix, len |-> data.prefix_length],
                  status |-> "active",
                  description |-> Description(data.iaid),
                  custom_fields |-> CustomFields(data, ExpiresAt(time, valid_lft)) ],
                outcome, inv))

\* sendNetBoxRequest without the branch on the lookup's result.
sendNetBoxRequest_write_AlwaysCreate(cfg, existing_prefix_id, data, valid_lft, time, outcome, inv) ==
    createPrefix(cfg, data, valid_lft, time, outcome, inv)

\* if (existing_prefix_id > 0) updatePrefix(...) else createPrefix(...)
sendNetBoxRequest_write(cfg, existing_prefix_id, data, valid_lft, time, outcome, inv) ==
    IF existing_prefix_id > 0
    THEN updatePrefix(cfg, existing_prefix_id, data, valid_lft, time, outcome, inv)
    ELSE createPrefix(cfg, data, valid_lft, time, outcome, inv)

\* The body of the pd_assigned webhook.
WebhookBody(query6, response6, pd_leases) ==
    [ event |-> "pd_assigned",
      msg_type |-> query6.type,
      reply_type |-> response6.type,
      client_duid |-> IF query6.clientid.present
                      THEN toHex(query6.clientid.data) ELSE <<>>,
      leases |-> [ i \in 1..Len(pd_leases) |->
                     [ prefix |-> pd_leases[i].addr_,
                       prefix_length |-> pd_leases[i].prefixlen_,
                       iaid |-> pd_leases[i].iaid_,
                       subnet_id |-> pd_leases[i].subnet_id_,
                       preferred_lft |-> pd_leases[i].preferred_lft_,
                       valid_lft |-> pd_leases[i].valid_lft_ ] ] ]

\* postWebhook putting its request to the inventory, enabled or not.
postWebhook_ToInventory(cfg, body) ==
    IF ~cfg.enabled \/ cfg.url = <<>> THEN <<>>
    ELSE << Op("netbox", "POST", cfg.netbox_url, CollectionEndpoint,
               body, cfg.timeout_ms) >>

\* postWebhook: the request it puts on the wire; errors are ignored.
postWebhook(cfg, body) ==
    IF ~cfg.enabled \/ cfg.url = <<>> THEN <<>>
    ELSE << Op("webhook", "POST", cfg.url, CollectionEndpoint, body,
               cfg.timeout_ms) >>

\* notifyPdAssigned collecting the leases of every type.
CollectPdLeases_AnyType(leases) ==
    SelectSeq(leases, LAMBDA l : ~l.null)

\* notifyPdAssigned: "Collect PD leases only."
CollectPdLeases(leases) ==
    SelectSeq(leases, LAMBDA l : ~l.null /\ l.type_ = "PD")

(***************************************************************************)
(* netbox_client.cc: class NetBoxClient.                                   *)
(***************************************************************************)
\* static_cast<int> of a wider non-negative integer: values above INT_MAX
\* wrap around.
ToInt(x) == IF x <= INT_MAX THEN x ELSE (x - INT_MAX) - INT_MAX - 2

\* The nesting depth of position i of a JSON text: the brackets open at it.
Depth(body, i) ==
    Cardinality({ j \in 1..i : body[j].k \in {"{", "["} })
    - Cardinality({ j \in 1..(i - 1) : body[j].k \in {"}", "]"} })

\* Json::CharReader::parse and the reads findPrefixId makes of the root:
\* whether the text is a JSON object, whether it has an array member
\* "results", the array's size, and the text of its first element's "id".
JsonRoot(body) ==
    LET is_object == /\ Len(body) >= 2
                     /\ body[1] = LB
                     /\ body[Len(body)] = RB
                     /\ Depth(body, Len(body)) = 1
                     /\ \A i \in 1..Len(body) : Depth(body, i) >= 1
        key == { i \in 1..(Len(body) - 1) :
                   body[i] = K_RESULTS /\ Depth(body, i) = 1 }
        at == IF key = {} THEN 0 ELSE CHOOSE i \in key : TRUE
        is_array == at # 0 /\ body[at + 1].k = "["
        first == at + 2
        size == IF ~is_array \/ body[first].k = "]" THEN 0
                ELSE 1 + Cardinality({ i \in first..Len(body) :
                           body[i] = COMMA /\ Depth(body, i) = 2 /\ i > first
                           /\ \A j \in first..i : Depth(body, j) >= 2 })
        ids == { i \in first..(Len(body) - 1) :
                   /\ body[i] = K_ID
                   /\ Depth(body, i) = 3
                   /\ \A j \in first..i : Depth(body, j) >= 3 }
        id_at == IF ids = {} THEN 0 ELSE CHOOSE i \in ids : TRUE
    IN  [ success |-> is_object, has_results |-> is_object /\ is_array,
          size |-> size,
          id_text |-> IF id_at = 0 THEN <<>> ELSE << body[id_at + 1] >> ]

\* safeParseInt: the number the whole text spells, default_val otherwise.
safeParseInt(str, default_val) ==
    IF Len(str) = 1 /\ str[1].k = "num" THEN str[1].n ELSE default_val

\* res != CURLE_OK: the transfer to a base URL failed.
TransferFailed(base, outcome) ==
    \/ outcome = "lost_request"
    \/ Route(base) = "no_host"
    \/ outcome = "lost_response" /\ Route(base) = "api"

\* NetBoxClient::netboxHttpRequest, its ERROR_LOG: g_cfg.last_error_msg
\* after the call, msg being the text before it.
NetBoxClient_ERROR_LOG(cfg, outcome, msg) ==
    IF cfg.netbox_enabled /\ TransferFailed(cfg.netbox_url, outcome)
    THEN "HTTP request failed"
    ELSE msg

\* NetBoxClient::postWebhook: the request it puts on the wire.  It sends
\* through netboxHttpRequest, which returns at once when the inventory is
\* not enabled and otherwise requests netbox_url + endpoint, the endpoint
\* being the webhook URL.
NetBoxClient_postWebhook(cfg, body) ==
    IF ~cfg.enabled \/ cfg.url = <<>> THEN <<>>
    ELSE IF ~cfg.netbox_enabled THEN <<>>
    ELSE << Op("webhook", "POST", cfg.netbox_url \o cfg.url,
               CollectionEndpoint, body, cfg.timeout_ms) >>

\* NetBoxClient::postWebhook, its ERROR_LOG: g_cfg.last_error_msg after a
\* post whose response is empty.
NetBoxClient_postWebhook_ERROR_LOG(cfg, outcome, msg) ==
    IF ~cfg.enabled \/ cfg.url = <<>> THEN msg
    ELSE IF ~cfg.netbox_enabled \/ outcome # "ok"
         THEN "PD_WEBHOOK: Webhook request failed"
         ELSE msg

NetBoxClient_netboxHttpRequest(cfg, method, endpoint, payload, outcome, inv) ==
    IF ~cfg.netbox_enabled
    THEN [response |-> <<>>, inventory |-> inv, ops |-> <<>>]
    ELSE Sent(Perform(cfg.netbox_url, method, endpoint, payload, outcome, inv),
              Op("netbox", method, cfg.netbox_url, endpoint, payload,
                 cfg.timeout_ms))

\* NetBoxClient::findPrefixId reporting an empty result list as the id 1.
NetBoxClient_ReadPrefixId_Positive(response, root) ==
    IF response = <<>> THEN Returned(-1)
    ELSE IF ~root.success \/ ~root.has_results THEN Returned(-1)
    ELSE IF root.size = 0 THEN Returned(1)
    ELSE Returned(safeParseInt(root.id_text, -1))

\* NetBoxClient::findPrefixId from the parsed response on.
NetBoxClient_ReadPrefixId(response, root) ==
    IF response = <<>> THEN Returned(-1)
    ELSE IF ~root.success \/ ~root.has_results THEN Returned(-1)
    ELSE IF root.size = 0 THEN Returned(-1)
    ELSE Returned(safeParseInt(root.id_text, -1))

NetBoxClient_LookedUp(x) ==
    Looked(NetBoxClient_ReadPrefixId(x.response, JsonRoot(x.response)), x)

NetBoxClient_findPrefixId(cfg, prefix, prefix_length, outcome, inv) ==
    NetBoxClient_LookedUp(
        NetBoxClient_netboxHttpRequest(cfg, "GET",
            SearchEndpoint(prefix, prefix_length), NoPayload, outcome, inv))

NetBoxClient_CustomFields(data, expires_at) ==
    [ dhcpv6_client_duid |-> data.client_duid,
      dhcpv6_iaid |-> ToInt(data.iaid),
      dhcpv6_cpe_link_local |-> data.cpe_link_local,
      dhcpv6_router_ip |-> data.router_ip,
      dhcpv6_router_link_addr |-> data.router_link_addr,
      dhcpv6_leasetime |-> TimeToInt(expires_at) ]

NetBoxClient_createPrefix(cfg, data, valid_lft, time, outcome, inv) ==
    Written(NetBoxClient_netboxHttpRequest(cfg, "POST", CollectionEndpoint,
                [ prefix |-> [addr |-> data.prefix, len |-> data.prefix_length],
                  status |-> "active",
                  description |-> Description(data.iaid),
                  custom_fields |->
                      NetBoxClient_CustomFields(data, ExpiresAt(time, valid_lft)) ],
                outcome, inv))

\* NetBoxClient::updatePrefix leaving its status parameter out of the body.
NetBoxClient_updatePrefix_NoStatus(cfg, prefix_id, data, valid_lft, status, time, outcome, inv) ==
    Written(NetBoxClient_netboxHttpRequest(cfg, "PATCH", ItemEndpoint(prefix_id),
                [ description |-> Description(data.iaid),
                  custom_fields |->
                      NetBoxClient_CustomFields(data, ExpiresAt(time, valid_lft)) ],
                outcome, inv))

NetBoxClient_updatePrefix(cfg, prefix_id, data, valid_lft, status, time, outcome, inv) ==
    Written(NetBoxClient_netboxHttpRequest(cfg, "PATCH", ItemEndpoint(prefix_id),
                [ status |-> status,
                  description |-> Description(data.iaid),
                  custom_fields |->
                      NetBoxClient_CustomFields(data, ExpiresAt(time, valid_lft)) ],
                outcome, inv))

\* The body of the expiry update: {"status":"deprecated"}
ExpiredPayload == [ status |-> "deprecated" ]

\* updateExpiredPrefix sending the whole update body with the new status.
NetBoxClient_updateExpiredPrefix_Full(cfg, prefix_id, data, outcome, inv) ==
    NetBoxClient_updatePrefix(cfg, prefix_id, data, 0, "deprecated", 0,
                              outcome, inv)

NetBoxClient_updateExpiredPrefix(cfg, prefix_id, data, outcome, inv) ==
    Written(NetBoxClient_netboxHttpRequest(cfg, "PATCH", ItemEndpoint(prefix_id),
                                           ExpiredPayload, outcome, inv))

\* NetBoxClient::sendNetBoxRequest with its branches exchanged.
NetBoxClient_sendNetBoxRequest_write_Swapped(cfg, existing_prefix_id, data, valid_lft, time, outcome, inv) ==
    IF existing_prefix_id > 0
    THEN NetBoxClient_createPrefix(cfg, data, valid_lft, time, outcome, inv)
    ELSE NetBoxClient_updatePrefix(cfg, existing_prefix_id, data, valid_lft,
                                   "active", time, outcome, inv)

\* if (existing_prefix_id > 0) updatePrefix(..., "active") else createPrefix(...)
NetBoxClient_sendNetBoxRequest_write(cfg, existing_prefix_id, data, valid_lft, time, outcome, inv) ==
    IF existing_prefix_id > 0
    THEN NetBoxClient_updatePrefix(cfg, existing_prefix_id, data, valid_lft,
                                   "active", time, outcome, inv)
    ELSE NetBoxClient_createPrefix(cfg, data, valid_lft, time, outcome, inv)

(***************************************************************************)
(* State.                                                                  *)
(***************************************************************************)
VARIABLES
    g_cfg,       \* the library's configuration (static WebhookConfig g_cfg)
    loaded,      \* the host has loaded the library
    nloads,      \* loads so far
    inventory,   \* the records of the remote inventory
    now,         \* time(nullptr)
    nevents,     \* callout invocations so far
    pc,          \* each host thread's position in its callout
    frame,       \* each host thread's callout arguments and locals
    prev,        \* what is kept of the last finished invocation
    returns,     \* the values the callbacks have returned to the host
    last_error_msg,  \* g_cfg.last_error_msg, the text ERROR_LOG keeps
    derived      \* a query and the AssignmentRecord built from it

vars ==
    << unique, g_cfg, loaded, nloads, inventory, now, nevents, pc, frame, prev,
       returns, last_error_msg, derived >>

Threads == {1}

\* library loads in one behaviour
MaxLoads == 1
\* callout invocations in one behaviour of the entry specification
MaxEntryEvents == 1

Epoch0 == 1700000000
Tick == 60

IdleFrame ==
    [ callout |-> "none", impl |-> "none", mode |-> "none",
      query6 |-> NullPkt, response6 |-> NullPkt, leases6 |-> NullCollection,
      pd_leases |-> <<>>, i |-> 0, existing_prefix_id |-> 0,
      inv_before |-> <<>>, ops |-> <<>>, clean |-> TRUE,
      thrown |-> FALSE, wrote_at |-> 0, hook |-> "none", ret |-> -1 ]

\* What a request put on the wire is: the webhook post, the lookup, a
\* create or an update.
OpKind(op) ==
    IF op.sink = "webhook" THEN "webhook"
    ELSE IF op.method = "GET" THEN "lookup"
    ELSE IF op.method = "POST" THEN "create"
    ELSE "update"

\* The inventory requests of a sequence of requests, by kind.
Requests(ops) ==
    LET nb == SelectSeq(ops, LAMBDA op : op.sink = "netbox")
    IN  [ i \in 1..Len(nb) |-> OpKind(nb[i]) ]

\* The normalized events of a frame: the lease and the client identifier
\* of each PD lease it reconciles.
Events(f) ==
    [ i \in DOMAIN f.pd_leases |->
        [ lease |-> f.pd_leases[i],
          clientid |-> IF f.query6.null THEN NoOption ELSE f.query6.clientid ] ]

\* What is kept of a finished invocation.
Summary(f) ==
    [ callout |-> f.callout, events |-> Events(f),
      inv_before |-> f.inv_before, requests |-> Requests(f.ops),
      clean |-> f.clean ]

\* The inventory a library instance can find at startup: nothing, or the
\* record an earlier run created.
InitialInventories ==
    { <<>>,
      << [ id |-> 1, prefix |-> [addr |-> "2001:db8:1::", len |-> 56],
           status |-> "active", description |-> Description(1),
           custom_fields |->
               CustomFields(
                   buildAssignmentData(Request,
                       CHOOSE l \in PdLeases : l.iaid_ = 1),
                   ExpiresAt(Epoch0, 3600)) ] >> }

\* A query no AssignmentRecord has been built from yet.
NotDerived(query) ==
    [ done |-> FALSE, query |-> query,
      data |-> [ client_duid |-> <<>>, prefix |-> "", prefix_length |-> 0,
                 iaid |-> 0, cpe_link_local |-> <<>>, router_ip |-> <<>>,
                 router_link_addr |-> <<>> ] ]

Init ==
    /\ unique = FALSE
    /\ g_cfg = WebhookConfig
    /\ loaded = FALSE
    /\ nloads = 0
    /\ inventory \in InitialInventories
    /\ now = Epoch0
    /\ nevents = 0
    /\ pc = [t \in Threads |-> "idle"]
    /\ frame = [t \in Threads |-> IdleFrame]
    /\ prev = Summary(IdleFrame)
    /\ returns = {}
    /\ last_error_msg = ""
    /\ derived = NotDerived(Request)

Idle == \A t \in DOMAIN pc : pc[t] = "idle"

(***************************************************************************)
(* load and unload.                                                        *)
(***************************************************************************)
load(Maps) ==
    /\ ~loaded
    /\ nloads < MaxLoads
    /\ Idle
    /\ \E params \in Maps : g_cfg' = LoadedConfig(params)
    /\ loaded' = TRUE
    /\ nloads' = nloads + 1
    /\ returns' = returns \cup {0}
    /\ last_error_msg' = ""
    /\ UNCHANGED << derived, unique, inventory, now, nevents, pc, frame, prev >>

unload ==
    /\ loaded
    /\ Idle
    /\ g_cfg' = WebhookConfig
    /\ loaded' = FALSE
    /\ returns' = returns \cup {0}
    /\ last_error_msg' = ""
    /\ UNCHANGED << derived, unique, nloads, inventory, now, nevents, pc, frame, prev >>

(***************************************************************************)
(* The callouts.  A callout runs from its entry to its first transfer in   *)
(* one step; each transfer (webhook post, lookup, write) is a step.        *)
(***************************************************************************)
\* The position after the entry checks: which transfer comes first.
FirstStep(cfg, pd_leases, webhook) ==
    IF pd_leases = <<>> THEN "done"
    ELSE IF webhook /\ cfg.enabled /\ cfg.url # <<>> THEN "webhook"
    ELSE IF cfg.netbox_enabled THEN "lookup"
    ELSE "done"

\* A callout is entered: its frame is set up and the clock has moved on.
Enter(t, f, first) ==
    /\ frame' = [frame EXCEPT ![t] =
           [f EXCEPT !.i = 1, !.inv_before = inventory,
                     !.ret = IF first = "done" THEN 0 ELSE -1]]
    /\ pc' = [pc EXCEPT ![t] = first]
    /\ nevents' = nevents + 1
    /\ now' = now + Tick
    /\ UNCHANGED << derived, unique, g_cfg, loaded, nloads, inventory, prev, returns,
                    last_error_msg >>


\* The arguments of leases6_committed: every query with every lease
\* collection, and each argument null.
CommittedArgs ==
    { << q, ReplyPkt, c >> : q \in Queries, c \in Collections \ {NullCollection} }
    \cup { << NullPkt, ReplyPkt, [null |-> FALSE, leases |-> <<>>] >>,
           << Request, NullPkt, [null |-> FALSE, leases |-> <<>>] >>,
           << Request, ReplyPkt, NullCollection >> }

\* Both delegated prefixes in one batch.
BothPdLeases ==
    << CHOOSE l \in PdLeases : l.iaid_ = 1, CHOOSE l \in PdLeases : l.iaid_ = 2 >>

\* The committed events of the reconciliation specification: a REQUEST for
\* one delegated prefix, or for both in one batch.
AssignedArgs ==
    { << Request, ReplyPkt, [null |-> FALSE, leases |-> ls] >> :
        ls \in { <<l>> : l \in PdLeases } \cup { BothPdLeases } }

\* leases6_committed without its message-type filter.
CommittedPdLeases_NoFilter(cfg, query6, response6, leases6) ==
    IF ~cfg.enabled THEN <<>>
    ELSE IF query6.null \/ response6.null \/ leases6.null THEN <<>>
    ELSE CollectPdLeases(leases6.leases)

\* leases6_committed taking every SOLICIT for a rapid commit.
CommittedPdLeases_AnySolicit(cfg, query6, response6, leases6) ==
    IF ~cfg.enabled THEN <<>>
    ELSE IF query6.null \/ response6.null \/ leases6.null THEN <<>>
    ELSE IF query6.type # DHCPV6_REQUEST /\ query6.type # DHCPV6_SOLICIT THEN <<>>
    ELSE CollectPdLeases(leases6.leases)

\* leases6_committed up to the end of notifyPdAssigned's collection of the
\* PD leases: the leases to notify, none when the callout returns early.
CommittedPdLeases(cfg, query6, response6, leases6) ==
    LET msg_type == query6.type
        is_request == (msg_type = DHCPV6_REQUEST)
        is_rapid_commit == (msg_type = DHCPV6_SOLICIT) /\ query6.rapid_commit
    IN  IF ~cfg.enabled THEN <<>>
        ELSE IF query6.null \/ response6.null \/ leases6.null THEN <<>>
        ELSE IF ~is_request /\ ~is_rapid_commit THEN <<>>
        ELSE CollectPdLeases(leases6.leases)

leases6_committed(t, Args, max) ==
    /\ loaded
    /\ pc[t] = "idle"
    /\ nevents < max
    /\ \E args \in Args :
        LET pd == CommittedPdLeases(g_cfg, args[1], args[2], args[3])
        IN  Enter(t, [ IdleFrame EXCEPT
                         !.callout = "leases6_committed", !.impl = "static",
                         !.mode = "active", !.query6 = args[1],
                         !.response6 = args[2], !.leases6 = args[3],
                         !.pd_leases = pd ],
                  FirstStep(g_cfg, pd, TRUE))

\* The arguments of lease6_renew: every RENEW query with every lease, and a
\* null query.
RenewArgs ==
    { << q, l >> : q \in { q \in Queries : q.type = DHCPV6_RENEW }, l \in Leases }
    \cup { << NullPkt, CHOOSE l \in PdLeases : TRUE >> }

Renew == CHOOSE q \in Queries :
             q.type = DHCPV6_RENEW /\ q.clientid.present /\ ~q.rapid_commit

\* The renew events of the reconciliation specification.
RenewedArgs == { << Renew, l >> : l \in PdLeases }

\* lease6_renew up to buildAssignmentData: the lease to reconcile, if any.
RenewPdLeases(cfg, query6, lease6) ==
    IF ~cfg.netbox_enabled THEN <<>>
    ELSE IF lease6.null \/ query6.null THEN <<>>
    ELSE IF lease6.type_ # "PD" THEN <<>>
    ELSE << lease6 >>

lease6_renew(t, Args, max) ==
    /\ loaded
    /\ pc[t] = "idle"
    /\ nevents < max
    /\ \E args \in Args :
        LET pd == RenewPdLeases(g_cfg, args[1], args[2])
        IN  Enter(t, [ IdleFrame EXCEPT
                         !.callout = "lease6_renew", !.impl = "static",
                         !.mode = "active", !.query6 = args[1],
                         !.leases6 = [null |-> FALSE, leases |-> <<args[2]>>],
                         !.pd_leases = pd ],
                  FirstStep(g_cfg, pd, FALSE))

(***************************************************************************)
(* The expire and recover callouts.  The sources hold the inventory        *)
(* operations they need (NetBoxClient::findPrefixId, updateExpiredPrefix,  *)
(* sendNetBoxRequest) and no callout that calls them; the two callouts     *)
(* follow section 4.3 of the specification: an Expired event deprecates    *)
(* the record its lookup finds, a Recovered event reconciles as an         *)
(* assignment does.  Both fire outside any client exchange: no query.      *)
(***************************************************************************)
\* The AssignmentRecord of an event without a query.
LeaseAssignmentData(lease) ==
    [ client_duid |-> toHex(lease.duid_),
      prefix |-> lease.addr_,
      prefix_length |-> lease.prefixlen_,
      iaid |-> lease.iaid_,
      cpe_link_local |-> <<>>,
      router_ip |-> <<>>,
      router_link_addr |-> <<>> ]

LeaseEventPdLeases(cfg, lease6) ==
    IF ~cfg.netbox_enabled THEN <<>>
    ELSE IF lease6.null THEN <<>>
    ELSE IF lease6.type_ # "PD" THEN <<>>
    ELSE << lease6 >>

\* The body of the webhook post for an expiration.
ExpiredBody(lease) ==
    [ event |-> "pd_expired",
      lease |-> [ prefix |-> lease.addr_,
                  prefix_length |-> lease.prefixlen_,
                  iaid |-> lease.iaid_ ] ]

\* The position after the entry checks of lease6_expire: the notification
\* runs off the event whether or not the inventory is enabled.
ExpireFirstStep(cfg, lease6, pd) ==
    IF ~lease6.null /\ lease6.type_ = "PD" /\ cfg.enabled /\ cfg.url # <<>>
    THEN "webhook"
    ELSE FirstStep(cfg, pd, FALSE)

lease6_expire(t, max) ==
    /\ loaded
    /\ pc[t] = "idle"
    /\ nevents < max
    /\ \E l \in PdLeases :
        LET pd == LeaseEventPdLeases(g_cfg, l)
        IN  Enter(t, [ IdleFrame EXCEPT
                         !.callout = "lease6_expire", !.impl = "client",
                         !.mode = "expire",
                         !.leases6 = [null |-> FALSE, leases |-> <<l>>],
                         !.pd_leases = pd ],
                  ExpireFirstStep(g_cfg, l, pd))

lease6_recover(t, Args, max) ==
    /\ loaded
    /\ pc[t] = "idle"
    /\ nevents < max
    /\ \E l \in Args :
        LET pd == LeaseEventPdLeases(g_cfg, l)
        IN  Enter(t, [ IdleFrame EXCEPT
                         !.callout = "lease6_recover", !.impl = "client",
                         !.mode = "active",
                         !.leases6 = [null |-> FALSE, leases |-> <<l>>],
                         !.pd_leases = pd ],
                  FirstStep(g_cfg, pd, FALSE))

(***************************************************************************)
(* The transfers of a callout.                                             *)
(***************************************************************************)
\* What can become of the transfer of the webhook post.
HookOutcomes == {"ok", "lost_request"}

\* The body of the webhook post of a frame.
HookBody(f) ==
    IF f.mode = "expire" THEN ExpiredBody(f.leases6.leases[1])
    ELSE WebhookBody(f.query6, f.response6, f.pd_leases)

\* The webhook post of either implementation.
PostBy(impl, cfg, body) ==
    IF impl = "client" THEN NetBoxClient_postWebhook(cfg, body)
    ELSE postWebhook(cfg, body)

\* g_cfg.last_error_msg after the webhook post of either implementation.
HookErrorBy(impl, cfg, outcome, msg) ==
    IF impl = "client" THEN NetBoxClient_postWebhook_ERROR_LOG(cfg, outcome, msg)
    ELSE msg

\* notifyPdAssigned with a postWebhook that throws when its transfer
\* fails: the callout catches the exception and returns.
AfterWebhook_Raising(cfg, f, outcome) ==
    LET body == HookBody(f)
        next == IF cfg.netbox_enabled /\ outcome = "ok" THEN "lookup" ELSE "done"
    IN  [ frame |-> [f EXCEPT !.ops = @ \o PostBy(f.impl, cfg, body),
                              !.hook = outcome,
                              !.thrown = (outcome # "ok"),
                              !.ret = IF next = "done" THEN 0 ELSE -1],
          pc |-> next ]

\* notifyPdAssigned once postWebhook has returned: postWebhook is void and
\* casts the result of curl_easy_perform away, so the frame keeps the
\* outcome only as a note and goes on to the inventory.
AfterWebhook(cfg, f, outcome) ==
    LET body == HookBody(f)
        next == IF cfg.netbox_enabled THEN "lookup" ELSE "done"
    IN  [ frame |-> [f EXCEPT !.ops = @ \o PostBy(f.impl, cfg, body),
                              !.hook = outcome,
                              !.ret = IF next = "done" THEN 0 ELSE -1],
          pc |-> next ]

\* notifyPdAssigned: the webhook post, whose result is ignored.
WebhookPost(t) ==
    /\ pc[t] = "webhook"
    /\ \E outcome \in HookOutcomes :
           LET x == AfterWebhook(g_cfg, frame[t], outcome)
           IN  /\ frame' = [frame EXCEPT ![t] = x.frame]
               /\ pc' = [pc EXCEPT ![t] = x.pc]
               /\ last_error_msg' =
                      HookErrorBy(frame[t].impl, g_cfg, outcome, last_error_msg)
    /\ UNCHANGED << derived, unique, g_cfg, loaded, nloads, inventory, now, nevents, prev,
                    returns >>

\* The AssignmentRecord kept in one buffer all threads share: the record
\* of the callout the first thread runs, when it runs one.
FrameData_Shared(f) ==
    IF frame[1].pd_leases = <<>> \/ frame[1].query6.null
    THEN buildAssignmentData(f.query6, f.pd_leases[f.i])
    ELSE buildAssignmentData(frame[1].query6, frame[1].pd_leases[frame[1].i])

\* The AssignmentRecord of the lease a frame is at.
FrameData(f) ==
    IF f.query6.null THEN LeaseAssignmentData(f.pd_leases[f.i])
    ELSE buildAssignmentData(f.query6, f.pd_leases[f.i])

\* The loop of notifyPdAssigned never leaving its lease.
NextLease_Stuck(f) == [pc |-> "lookup", frame |-> f]

\* The frame and position once the lease a frame is at is dealt with: the
\* loop of notifyPdAssigned goes to the next PD lease, or the callout is done.
NextLease(f) ==
    IF f.i < Len(f.pd_leases)
    THEN [pc |-> "lookup", frame |-> [f EXCEPT !.i = @ + 1]]
    ELSE [pc |-> "done", frame |-> [f EXCEPT !.ret = 0]]

\* sendNetBoxRequest: "NetBox not properly configured"
Configured(cfg) ==
    cfg.netbox_enabled /\ cfg.netbox_url # <<>> /\ cfg.netbox_token # <<>>

\* g_cfg.last_error_msg after the transfer of either implementation: the
\* static functions log nothing.
LastErrorBy(impl, cfg, outcome, msg) ==
    IF impl = "client" THEN NetBoxClient_ERROR_LOG(cfg, outcome, msg) ELSE msg

\* The lookup of either implementation.
LookupBy(impl, cfg, data, outcome, inv) ==
    IF impl = "static"
    THEN findPrefixId(cfg, data.prefix, data.prefix_length, outcome, inv)
    ELSE NetBoxClient_findPrefixId(cfg, data.prefix, data.prefix_length,
                                   outcome, inv)

\* The transfer x was answered by the inventory API.
Answered(x, outcome) ==
    outcome = "ok" /\ x.ops # <<>> /\ Route(x.ops[1].base) = "api"

\* The frame after a lookup x.
AfterLookup(f, x, outcome) ==
    [f EXCEPT !.existing_prefix_id = x.val,
              !.ops = @ \o x.ops,
              !.clean = @ /\ Answered(x, outcome),
              !.thrown = x.thrown]

\* The callout moves on to the frame and position n; what became of the
\* webhook post, cast to void, is not kept.
Goto(t, n) ==
    /\ frame' = [frame EXCEPT ![t] = [n.frame EXCEPT !.hook = "none"]]
    /\ pc' = [pc EXCEPT ![t] = n.pc]

\* The callout letting the exception out to the host, which takes it for an
\* error of the callout.
Caught_Uncaught(g) == [pc |-> "done", frame |-> [g EXCEPT !.ret = 1]]

\* The callout is left through its catch (...), which returns 0.
Caught(g) == [pc |-> "done", frame |-> [g EXCEPT !.ret = 0]]

\* What follows the lookup x: an exception leaves the callout, an Expired
\* event that finds no record is over, any other event writes.
LookedUpStep(t, f, x, g) ==
    /\ inventory' = x.inventory
    /\ IF x.thrown THEN Goto(t, Caught(g))
       ELSE IF f.mode = "expire" /\ ~(x.val > 0) THEN Goto(t, NextLease(g))
       ELSE Goto(t, [pc |-> "write", frame |-> g])

LookupStep(t, f, x, outcome) ==
    /\ LookedUpStep(t, f, x, AfterLookup(f, x, outcome))
    /\ last_error_msg' = LastErrorBy(f.impl, g_cfg, outcome, last_error_msg)

\* The lookup for the AssignmentRecord data, whatever becomes of its
\* transfer.
LookupFor(t, data) ==
    \E outcome \in NetOutcomes :
        LookupStep(t, frame[t],
                   LookupBy(frame[t].impl, g_cfg, data, outcome, inventory),
                   outcome)

\* sendNetBoxRequest up to the result of findPrefixId.
Lookup(t) ==
    /\ pc[t] = "lookup"
    /\ IF frame[t].mode = "active" /\ ~Configured(g_cfg)
       THEN /\ inventory' = inventory
            /\ last_error_msg' = last_error_msg
            /\ Goto(t, NextLease(frame[t]))
       ELSE LookupFor(t, FrameData(frame[t]))
    /\ UNCHANGED << derived, unique, g_cfg, loaded, nloads, now, nevents, prev, returns >>

\* The write of either implementation and event kind.
WriteBy(impl, mode, cfg, existing_prefix_id, data, valid_lft, time, outcome, inv) ==
    IF mode = "expire"
    THEN NetBoxClient_updateExpiredPrefix(cfg, existing_prefix_id, data,
                                          outcome, inv)
    ELSE IF impl = "static"
    THEN sendNetBoxRequest_write(cfg, existing_prefix_id, data, valid_lft,
                                 time, outcome, inv)
    ELSE NetBoxClient_sendNetBoxRequest_write(cfg, existing_prefix_id, data,
                                              valid_lft, time, outcome, inv)

\* The frame after a write x.
AfterWrite(f, x, outcome) ==
    [f EXCEPT !.ops = @ \o x.ops, !.clean = @ /\ Answered(x, outcome)]

WriteStep(t, f, x, outcome) ==
    /\ inventory' = x.inventory
    /\ last_error_msg' = LastErrorBy(f.impl, g_cfg, outcome, last_error_msg)
    /\ Goto(t, NextLease(AfterWrite(f, x, outcome)))

\* The write for the AssignmentRecord data, whatever becomes of its
\* transfer.
WriteFor(t, data) ==
    \E outcome \in NetOutcomes :
        WriteStep(t, [frame[t] EXCEPT !.wrote_at = now],
                  WriteBy(frame[t].impl, frame[t].mode, g_cfg,
                          frame[t].existing_prefix_id, data,
                          frame[t].pd_leases[frame[t].i].valid_lft_, now,
                          outcome, inventory),
                  outcome)

\* sendNetBoxRequest from the result of findPrefixId on.
Write(t) ==
    /\ pc[t] = "write"
    /\ WriteFor(t, FrameData(frame[t]))
    /\ UNCHANGED << derived, unique, g_cfg, loaded, nloads, now, nevents, prev, returns >>

\* The callout returns to the host.
Return(t) ==
    /\ pc[t] = "done"
    /\ prev' = Summary(frame[t])
    /\ frame' = [frame EXCEPT ![t] = IdleFrame]
    /\ pc' = [pc EXCEPT ![t] = "idle"]
    /\ returns' = returns \cup {frame[t].ret}
    /\ UNCHANGED << derived, unique, g_cfg, loaded, nloads, inventory, now, nevents,
                    last_error_msg >>

(***************************************************************************)
(* The reconciliation specification: sequences of lifecycle events for     *)
(* delegated prefixes.                                                     *)
(***************************************************************************)
Next ==
    \/ load(ParamMaps)
    \/ unload
    \/ \E t \in Threads : leases6_committed(t, AssignedArgs, MaxEvents)
    \/ \E t \in Threads : lease6_renew(t, RenewedArgs, MaxEvents)
    \/ \E t \in Threads : lease6_expire(t, MaxEvents)
    \/ \E t \in Threads : lease6_recover(t, PdLeases, MaxEvents)
    \/ \E t \in Threads : WebhookPost(t)
    \/ \E t \in Threads : Lookup(t)
    \/ \E t \in Threads : Write(t)
    \/ \E t \in Threads : Return(t)

Spec == Init /\ [][Next]_vars

(***************************************************************************)
(* The entry specification: one callout of the sources with any arguments. *)
(***************************************************************************)
NextEntry ==
    \/ load(ParamMaps)
    \/ unload
    \/ \E t \in Threads : leases6_committed(t, CommittedArgs, MaxEntryEvents)
    \/ \E t \in Threads : lease6_renew(t, RenewArgs, MaxEntryEvents)
    \/ \E t \in Threads : WebhookPost(t)
    \/ \E t \in Threads : Lookup(t)
    \/ \E t \in Threads : Write(t)
    \/ \E t \in Threads : Return(t)

SpecEntry == Init /\ [][NextEntry]_vars

(***************************************************************************)
(* The multi-threaded specification.  The library declares itself         *)
(* multi-threading compatible, so the host runs callouts on its packet     *)
(* threads in parallel: two threads, each transfer of each a step, against *)
(* an inventory that refuses duplicates or does not.                       *)
(***************************************************************************)
Workers == {1, 2}

\* callout invocations in one behaviour of the multi-threaded specification
MaxMTEvents == 2

\* The committed events of the packet threads: a REQUEST for one delegated
\* prefix.
MTArgs ==
    { << Request, ReplyPkt, [null |-> FALSE, leases |-> <<l>>] >> : l \in PdLeases }

InitMT ==
    /\ unique \in BOOLEAN
    /\ g_cfg = WebhookConfig
    /\ loaded = FALSE
    /\ nloads = 0
    /\ inventory \in InitialInventories
    /\ now = Epoch0
    /\ nevents = 0
    /\ pc = [t \in Workers |-> "idle"]
    /\ frame = [t \in Workers |-> IdleFrame]
    /\ prev = Summary(IdleFrame)
    /\ returns = {}
    /\ last_error_msg = ""
    /\ derived = NotDerived(Request)

NextMT ==
    \/ load(ParamMaps)
    \/ unload
    \/ \E t \in Workers : leases6_committed(t, MTArgs, MaxMTEvents)
    \/ \E t \in Workers : WebhookPost(t)
    \/ \E t \in Workers : Lookup(t)
    \/ \E t \in Workers : Write(t)
    \/ \E t \in Workers : Return(t)

SpecMT == InitMT /\ [][NextMT]_vars

(***************************************************************************)
(* Properties.                                                             *)
(***************************************************************************)
\* The inventory requests a frame has put on the wire.
NetboxOps(f) == SelectSeq(f.ops, LAMBDA op : op.sink = "netbox")

Count(seq, kind) == Cardinality({ i \in DOMAIN seq : seq[i] = kind })

\* The identity of a lease's record: (prefix, prefixLength).
PrefixOf(l) == [addr |-> l.addr_, len |-> l.prefixlen_]

\* The ids of the records of an inventory with a given identity.
Matching(inv, p) == { i \in 1..Len(inv) : inv[i].prefix = p }

\* The record a search answers first.
FirstMatch(inv, p) ==
    CHOOSE i \in Matching(inv, p) : \A j \in Matching(inv, p) : i <= j

\* A lookup and the write kind after it, for each of n leases.
Pairs(n, kind) == [ i \in 1..(2 * n) |-> IF i % 2 = 1 THEN "lookup" ELSE kind ]

\* An Assigned or Renewed event's callout.
Assigning(f) == f.callout \in {"leases6_committed", "lease6_renew"}

\* The callout of thread t has finished the same Assigned batch a second
\* time in a row, the first time against an empty inventory, and every
\* transfer of both invocations was answered by the inventory.
SecondAssignment(t) ==
    /\ pc[t] = "done"
    /\ frame[t].callout = "leases6_committed"
    /\ prev.callout = "leases6_committed"
    /\ Events(frame[t]) = prev.events
    /\ prev.inv_before = <<>>
    /\ prev.clean /\ prev.requests # <<>>
    /\ frame[t].clean /\ Requests(frame[t].ops) # <<>>

\* C1: reconciling the same Assigned event twice in a row against an
\* inventory that starts empty, with every transfer answered, creates each
\* prefix once in the first invocation and only updates in the second: a
\* lookup and a create, then a lookup and an update, never two creates, and
\* one record per prefix in the end.
C1_Idempotence ==
    \A t \in Threads :
        SecondAssignment(t) =>
            LET pd == frame[t].pd_leases
                prefixes == { PrefixOf(pd[i]) : i \in DOMAIN pd }
            IN  /\ Count(prev.requests, "create") = Cardinality(prefixes)
                /\ Count(prev.requests, "lookup") = Len(pd)
                /\ Requests(frame[t].ops) = Pairs(Len(pd), "update")
                /\ Len(pd) = 1 => prev.requests = Pairs(1, "create")
                /\ \A p \in prefixes : Cardinality(Matching(inventory, p)) = 1

C1_Witness ==
    \E t \in Threads :
        /\ SecondAssignment(t)
        /\ prev.requests = <<"lookup", "create">>
        /\ Requests(frame[t].ops) = <<"lookup", "update">>

\* The requests a step of thread t adds to its frame.
NewOps(t) ==
    SubSeq(frame'[t].ops, Len(frame[t].ops) + 1, Len(frame'[t].ops))

\* The write step of an Assigned or Renewed event: one request, decided by
\* the id the lookup of this call returned.
DecidedWrite(f, new) ==
    /\ Len(new) = 1
    /\ new[1].sink = "netbox"
    /\ new[1].payload.status = "active"
    /\ IF f.existing_prefix_id > 0
       THEN /\ new[1].method = "PATCH"
            /\ new[1].ep = ItemEndpoint(f.existing_prefix_id)
       ELSE /\ new[1].method = "POST"
            /\ new[1].ep = CollectionEndpoint
            /\ new[1].payload.prefix = PrefixOf(f.pd_leases[f.i])

\* The lookup step of an Assigned or Renewed event: an answered lookup
\* finds a record exactly when the inventory holds one for the prefix, and
\* then its id is that record's.
TrueLookup(f, g, inv) ==
    (f.clean /\ g.clean /\ Len(g.ops) > Len(f.ops)) =>
        IF Matching(inv, PrefixOf(f.pd_leases[f.i])) = {}
        THEN ~(g.existing_prefix_id > 0)
        ELSE g.existing_prefix_id = FirstMatch(inv, PrefixOf(f.pd_leases[f.i]))

C2_Step(t) ==
    (Assigning(frame[t]) /\ pc[t] \in {"webhook", "lookup", "write"}) =>
        IF pc[t] = "write"
        THEN DecidedWrite(frame[t], NewOps(t)) /\ pc'[t] # "write"
        ELSE /\ \A i \in DOMAIN NewOps(t) :
                   OpKind(NewOps(t)[i]) \notin {"create", "update"}
             /\ pc[t] = "lookup" => TrueLookup(frame[t], frame'[t], inventory)

\* C2: for an Assigned or Renewed event the only write is the one after
\* the lookup of the same call, and the lookup's result decides it: no
\* record found, one create of the prefix with status active; a record
\* found, one partial update of that record's id with status active.
C2_WriteDecidedByLookup == [][\A t \in Threads : C2_Step(t)]_vars

C2_Witness ==
    \E t \in Threads :
        /\ pc[t] = "done"
        /\ frame[t].callout = "lease6_renew"
        /\ frame[t].clean
        /\ Requests(frame[t].ops) = <<"lookup", "update">>
        /\ frame[t].existing_prefix_id = 1
        /\ prev.callout = "leases6_committed"
        /\ prev.requests = <<"lookup", "create">>

\* C3: every write of a reconciliation directly follows a lookup of the
\* same call for the same prefix, and the id an update addresses is the id
\* of the record that lookup was answered with: the first record of the
\* inventory with the prefix.
C3_LookupBeforeWrite ==
    \A t \in Threads :
        LET nb == NetboxOps(frame[t])
        IN  \A j \in DOMAIN nb :
                nb[j].method # "GET" =>
                    /\ j > 1
                    /\ nb[j - 1].method = "GET"
                    /\ IF nb[j].method = "POST"
                       THEN nb[j].payload.prefix =
                                [addr |-> nb[j - 1].ep.prefix, len |-> nb[j - 1].ep.len]
                       ELSE /\ nb[j].ep.id \in 1..Len(inventory)
                            /\ inventory[nb[j].ep.id].prefix =
                                [addr |-> nb[j - 1].ep.prefix, len |-> nb[j - 1].ep.len]

C3_Witness ==
    \E t \in Threads :
        /\ pc[t] = "done"
        /\ Assigning(frame[t])
        /\ Count(Requests(frame[t].ops), "update") = 1
        /\ Count(prev.requests, "create") = 1
        /\ prev.inv_before = <<>>
        /\ frame[t].inv_before # <<>>

\* The lease of an Expired or Recovered event.
EventLease(f) == f.leases6.leases[1]

\* Two inventories hold the same records up to their status.
SameButStatus(inv1, inv2) ==
    /\ Len(inv1) = Len(inv2)
    /\ \A i \in 1..Len(inv1) :
           \A fld \in DOMAIN inv1[i] \ {"status"} : inv1[i][fld] = inv2[i][fld]

\* An Expired event with a record for its prefix and every transfer answered.
ExpiredFound(t) ==
    /\ pc[t] = "done"
    /\ frame[t].callout = "lease6_expire"
    /\ frame[t].clean /\ frame[t].ops # <<>>
    /\ Matching(frame[t].inv_before, PrefixOf(EventLease(frame[t]))) # {}

\* C4: the only write of an Expired event is a partial update of the
\* record its lookup found whose body is the status deprecated and nothing
\* else; it leaves every other field of every record as it was, and once
\* answered the record is deprecated.
C4_ExpiredDeprecatesOnly ==
    \A t \in Threads :
        (pc[t] = "done" /\ frame[t].callout = "lease6_expire") =>
            /\ \A j \in DOMAIN NetboxOps(frame[t]) :
                   NetboxOps(frame[t])[j].method # "GET" =>
                       /\ NetboxOps(frame[t])[j].method = "PATCH"
                       /\ NetboxOps(frame[t])[j].ep =
                              ItemEndpoint(frame[t].existing_prefix_id)
                       /\ NetboxOps(frame[t])[j].payload = [status |-> "deprecated"]
            /\ SameButStatus(frame[t].inv_before, inventory)
            /\ ExpiredFound(t) =>
                   /\ Requests(frame[t].ops) = <<"lookup", "update">>
                   /\ inventory[FirstMatch(frame[t].inv_before,
                                           PrefixOf(EventLease(frame[t])))].status
                          = "deprecated"

C4_Witness ==
    \E t \in Threads :
        /\ ExpiredFound(t)
        /\ frame[t].inv_before[1].status = "active"
        /\ frame[t].inv_before[1].prefix = PrefixOf(EventLease(frame[t]))
        /\ inventory[1].status = "deprecated"
        /\ inventory[1].custom_fields = frame[t].inv_before[1].custom_fields

\* C5: an Expired event for a prefix the inventory holds no record of
\* issues no create and no update, and leaves the inventory as it was.
C5_ExpiredNotFoundNoOp ==
    \A t \in Threads :
        ( /\ pc[t] = "done"
          /\ frame[t].callout = "lease6_expire"
          /\ Matching(frame[t].inv_before, PrefixOf(EventLease(frame[t]))) = {} )
        => /\ Count(Requests(frame[t].ops), "create") = 0
           /\ Count(Requests(frame[t].ops), "update") = 0
           /\ inventory = frame[t].inv_before

C5_Witness ==
    \E t \in Threads :
        /\ pc[t] = "done"
        /\ frame[t].callout = "lease6_expire"
        /\ frame[t].clean
        /\ Matching(frame[t].inv_before, PrefixOf(EventLease(frame[t]))) = {}
        /\ Requests(frame[t].ops) = <<"lookup">>
        /\ frame[t].inv_before # <<>>

\* A Recovered event has finished right after an Expired event for the
\* same prefix, whose record was active, every transfer of both answered.
ExpiredThenRecovered(t) ==
    /\ pc[t] = "done"
    /\ frame[t].callout = "lease6_recover"
    /\ prev.callout = "lease6_expire"
    /\ Events(frame[t]) = prev.events
    /\ prev.clean /\ prev.requests # <<>>
    /\ frame[t].clean /\ frame[t].ops # <<>>
    /\ Matching(prev.inv_before, PrefixOf(EventLease(frame[t]))) # {}
    /\ prev.inv_before[FirstMatch(prev.inv_before,
                                  PrefixOf(EventLease(frame[t])))].status = "active"

\* C6: an Expired event followed by a Recovered event for a prefix whose
\* record is active takes the record's status from active to deprecated
\* and back to active, and adds no record to the inventory.
C6_ExpiredThenRecovered ==
    \A t \in Threads :
        ExpiredThenRecovered(t) =>
            LET k == FirstMatch(prev.inv_before, PrefixOf(EventLease(frame[t])))
            IN  /\ frame[t].inv_before[k].status = "deprecated"
                /\ inventory[k].status = "active"
                /\ Len(inventory) = Len(prev.inv_before)
                /\ prev.requests = <<"lookup", "update">>
                /\ Requests(frame[t].ops) = <<"lookup", "update">>

C6_Witness ==
    \E t \in Threads :
        /\ ExpiredThenRecovered(t)
        /\ Len(inventory) = 1
        /\ inventory[1].status = "active"
        /\ frame[t].inv_before[1].status = "deprecated"

\* C7: a Recovered event writes once after its lookup: a partial update of
\* the found record with status active and the expiry timestamp of this
\* reconciliation when the lookup found one, a create with status active
\* when it found none; an answered lookup finds the record exactly when the
\* inventory holds one.
C7_Recovered ==
    \A t \in Threads :
        ( /\ pc[t] = "done"
          /\ frame[t].callout = "lease6_recover"
          /\ frame[t].ops # <<>> )
        => LET f == frame[t]
               p == PrefixOf(EventLease(f))
               w == f.ops[2]
           IN  /\ Requests(f.ops) \in {<<"lookup", "update">>, <<"lookup", "create">>}
               /\ w.payload.status = "active"
               /\ w.payload.custom_fields.dhcpv6_leasetime
                      = now + EventLease(f).valid_lft_
               /\ IF f.existing_prefix_id > 0
                  THEN w.method = "PATCH" /\ w.ep = ItemEndpoint(f.existing_prefix_id)
                  ELSE w.method = "POST" /\ w.payload.prefix = p
               /\ f.clean =>
                      IF Matching(f.inv_before, p) = {}
                      THEN /\ w.method = "POST"
                           /\ Matching(inventory, p) = {Len(inventory)}
                           /\ inventory[Len(inventory)].status = "active"
                      ELSE /\ w.method = "PATCH"
                           /\ w.ep.id = FirstMatch(f.inv_before, p)
                           /\ inventory[w.ep.id].status = "active"
                           /\ inventory[w.ep.id].custom_fields.dhcpv6_leasetime
                                  = now + EventLease(f).valid_lft_

C7_Witness ==
    \E t \in Threads :
        /\ pc[t] = "done"
        /\ frame[t].callout = "lease6_recover"
        /\ frame[t].clean
        /\ Requests(frame[t].ops) = <<"lookup", "update">>
        /\ frame[t].inv_before[1].custom_fields.dhcpv6_leasetime
               # inventory[1].custom_fields.dhcpv6_leasetime

\* The PD leases of a lease collection, in its order.
PdOf(leases6) ==
    IF leases6.null THEN <<>>
    ELSE SelectSeq(leases6.leases, LAMBDA l : ~l.null /\ l.type_ = "PD")

\* A message type the committed event fires for.
Triggering(query6) ==
    \/ query6.type \in {DHCPV6_REQUEST, DHCPV6_RENEW}
    \/ query6.type = DHCPV6_SOLICIT /\ query6.rapid_commit

\* A committed callout that was handed a query, a response and PD leases
\* while the library is enabled has returned.
CommittedDone(t) ==
    /\ pc[t] = "done"
    /\ frame[t].callout = "leases6_committed"
    /\ ~frame[t].query6.null /\ ~frame[t].response6.null
    /\ PdOf(frame[t].leases6) # <<>>
    /\ g_cfg.enabled

\* C8: a committed callout puts a request on the wire, a webhook post or
\* an inventory call, only when its query is a REQUEST, a RENEW or a
\* SOLICIT with the rapid-commit option: for a SOLICIT without it, a
\* CONFIRM, a RELEASE, a DECLINE and an INFORMATION-REQUEST it notifies no
\* lease and issues no request.
C8_TriggerFilter ==
    \A t \in Threads :
        (frame[t].callout = "leases6_committed" /\ ~Triggering(frame[t].query6))
        => frame[t].ops = <<>> /\ frame[t].pd_leases = <<>>

C8_Witness ==
    \E t \in Threads :
        /\ CommittedDone(t)
        /\ frame[t].query6.type = DHCPV6_RELEASE
        /\ g_cfg.netbox_enabled /\ g_cfg.url # <<>>
        /\ frame[t].ops = <<>>

\* C9: a committed callout for a SOLICIT without the rapid-commit option
\* notifies no lease and reconciles none; for a SOLICIT with it, it
\* notifies every PD lease of the batch once, in the batch's order, and
\* reconciles each once: one lookup per PD lease, unless an exception left
\* the callout, and never more.
C9_SolicitFilter ==
    \A t \in Threads :
        ( /\ pc[t] = "done"
          /\ frame[t].callout = "leases6_committed"
          /\ frame[t].query6.type = DHCPV6_SOLICIT )
        => IF ~frame[t].query6.rapid_commit
           THEN frame[t].pd_leases = <<>> /\ frame[t].ops = <<>>
           ELSE (g_cfg.enabled /\ ~frame[t].response6.null) =>
                /\ frame[t].pd_leases = PdOf(frame[t].leases6)
                /\ Count(Requests(frame[t].ops), "lookup") <= Len(frame[t].pd_leases)
                /\ (g_cfg.netbox_enabled /\ ~frame[t].thrown) =>
                       Count(Requests(frame[t].ops), "lookup")
                           = Len(frame[t].pd_leases)

C9_Witness ==
    \E t \in Threads :
        /\ CommittedDone(t)
        /\ frame[t].query6.type = DHCPV6_SOLICIT
        /\ frame[t].query6.rapid_commit
        /\ Len(PdOf(frame[t].leases6)) = 2
        /\ Count(Requests(frame[t].ops), "lookup") = 2

\* The identities of the PD leases a callout was handed.
PdPrefixes(f) ==
    { PrefixOf(PdOf(f.leases6)[i]) : i \in DOMAIN PdOf(f.leases6) }

\* The leases of a webhook body, as identities.
BodyPrefixes(body) ==
    [ i \in DOMAIN body.leases |->
        [addr |-> body.leases[i].prefix, len |-> body.leases[i].prefix_length] ]

\* C10: in the committed and the renew callout every lookup and every
\* create is for the prefix of a PD lease the callout was handed, every
\* update follows such a lookup, and the webhook body lists the PD leases
\* and no other: a lease of type NA or TA causes no request and is in no
\* body.
C10_OnlyPd ==
    \A t \in Threads :
        Assigning(frame[t]) =>
            /\ \A j \in DOMAIN frame[t].ops :
                   LET op == frame[t].ops[j]
                   IN  CASE OpKind(op) = "webhook" ->
                                BodyPrefixes(op.payload)
                                    = [ i \in DOMAIN PdOf(frame[t].leases6) |->
                                          PrefixOf(PdOf(frame[t].leases6)[i]) ]
                         [] OpKind(op) = "lookup" ->
                                [addr |-> op.ep.prefix, len |-> op.ep.len]
                                    \in PdPrefixes(frame[t])
                         [] OpKind(op) = "create" ->
                                op.payload.prefix \in PdPrefixes(frame[t])
                         [] OTHER ->
                                j > 1 /\ OpKind(frame[t].ops[j - 1]) = "lookup"
            /\ PdOf(frame[t].leases6) = <<>> => frame[t].ops = <<>>

C10_Witness ==
    \E t \in Threads :
        /\ CommittedDone(t)
        /\ \E i \in DOMAIN frame[t].leases6.leases :
               frame[t].leases6.leases[i].type_ \in {"NA", "TA"}
        /\ Count(Requests(frame[t].ops), "lookup") = 1
        /\ \E j \in DOMAIN frame[t].ops : OpKind(frame[t].ops[j]) = "webhook"

\* The frame holds a lookup for the prefix of lease l, followed by a write
\* unless that lookup is the one that failed with an exception.
Reconciled(f, l) ==
    \E j \in DOMAIN NetboxOps(f) :
        /\ NetboxOps(f)[j].method = "GET"
        /\ [addr |-> NetboxOps(f)[j].ep.prefix, len |-> NetboxOps(f)[j].ep.len]
               = PrefixOf(l)
        /\ \/ j + 1 \in DOMAIN NetboxOps(f) /\ NetboxOps(f)[j + 1].method # "GET"
           \/ j = Len(NetboxOps(f)) /\ f.thrown

\* C11: when a committed callout with the inventory sink configured has
\* returned, the lookup of every PD lease of its batch was attempted, and
\* the write after it, whatever the transfers of the other leases of the
\* batch came to (a failed transfer, a body that is no search result): the
\* failure of one lease's reconciliation stops no other lease's.
C11_PerPrefixFailure ==
    \A t \in Threads :
        ( /\ pc[t] = "done"
          /\ frame[t].callout = "leases6_committed"
          /\ Configured(g_cfg) )
        => \A i \in DOMAIN frame[t].pd_leases :
               Reconciled(frame[t], frame[t].pd_leases[i])

\* C12: every value a callback has returned to the host (load, unload,
\* leases6_committed, lease6_renew) is 0, and a callout about to return
\* returns 0: for every argument, every configuration and every outcome of
\* its transfers, an exception included.
C12_AlwaysNoObjection ==
    /\ returns \subseteq {0}
    /\ \A t \in Threads : pc[t] = "done" => frame[t].ret = 0

\* A committed callout whose lookup ended in an exception (a lookup with
\* no write after it) has returned.
C12_Witness ==
    /\ Idle
    /\ returns = {0}
    /\ prev.callout = "leases6_committed"
    /\ prev.requests = <<"lookup">>

\* The lookups of a sequence of inventory requests for identity p.
LookupsFor(nb, p) ==
    { j \in DOMAIN nb :
        nb[j].method = "GET" /\ [addr |-> nb[j].ep.prefix, len |-> nb[j].ep.len] = p }

\* C13: no request is issued again.  At every point of a callout the
\* inventory requests it has issued begin with a lookup, hold for each
\* prefix no more lookups than the batch has leases of that prefix, every
\* lookup is for a lease of the batch, and no write is followed by another
\* write: one lookup and at most one write for each reconciliation,
\* whether its transfers were answered, failed or lost.
C13_NoRetry ==
    \A t \in Threads :
        LET nb == NetboxOps(frame[t])
            pd == frame[t].pd_leases
        IN  /\ nb # <<>> => nb[1].method = "GET"
            /\ \A j \in DOMAIN nb :
                   nb[j].method = "GET" =>
                       \E i \in DOMAIN pd :
                           j \in LookupsFor(nb, PrefixOf(pd[i]))
            /\ \A i \in DOMAIN pd :
                   Cardinality(LookupsFor(nb, PrefixOf(pd[i])))
                       <= Cardinality({ k \in DOMAIN pd :
                                          PrefixOf(pd[k]) = PrefixOf(pd[i]) })
            /\ \A j \in DOMAIN nb :
                   (nb[j].method # "GET" /\ j < Len(nb)) => nb[j + 1].method = "GET"
            /\ Len(nb) <= 2 * Len(pd)

\* A renewal whose lookup and whose create both failed has returned after
\* those two requests, the inventory as it was.
C13_Witness ==
    \E t \in Threads :
        /\ pc[t] = "done"
        /\ frame[t].callout = "lease6_renew"
        /\ ~frame[t].clean
        /\ Requests(frame[t].ops) = <<"lookup", "create">>
        /\ inventory = frame[t].inv_before
        /\ Matching(inventory, PrefixOf(frame[t].pd_leases[1])) = {}

\* The last finished invocation reconciled lease l and one of its
\* transfers failed.
FailedBefore(l) ==
    /\ prev.requests # <<>>
    /\ ~prev.clean
    /\ \E i \in DOMAIN prev.events : PrefixOf(prev.events[i].lease) = PrefixOf(l)

\* C14: when the reconciliation of a prefix failed in one of its
\* transfers, and the next event is an Assigned or Renewed event for the
\* same prefix with every transfer answered, then after that event the
\* inventory holds exactly one record of the prefix, its status active and
\* its custom fields those of the later event.
C14_EventualCorrection ==
    \A t \in Threads :
        ( /\ pc[t] = "done"
          /\ Assigning(frame[t])
          /\ frame[t].clean /\ Requests(frame[t].ops) # <<>>
          /\ Len(frame[t].pd_leases) = 1
          /\ FailedBefore(frame[t].pd_leases[1]) )
        => LET l == frame[t].pd_leases[1]
               m == Matching(inventory, PrefixOf(l))
           IN  /\ Cardinality(m) = 1
               /\ \A k \in m :
                      /\ inventory[k].status = "active"
                      /\ inventory[k].custom_fields =
                             CustomFields(buildAssignmentData(frame[t].query6, l),
                                          ExpiresAt(now, l.valid_lft_))

\* The records of an inventory with identity p, in their order, without
\* the ids the inventory gave them.
RecordsOf(inv, p) ==
    [ i \in DOMAIN SelectSeq(inv, LAMBDA r : r.prefix = p) |->
        [ SelectSeq(inv, LAMBDA r : r.prefix = p)[i] EXCEPT !.id = 0 ] ]

\* The inventory after sendNetBoxRequest ran by itself against inv at the
\* given time, its lookup and its write answered.
Alone(cfg, data, valid_lft, time, inv) ==
    sendNetBoxRequest_write(
        cfg,
        findPrefixId(cfg, data.prefix, data.prefix_length, "ok", inv).val,
        data, valid_lft, time, "ok", inv).inventory

\* Thread t has finished an Assigned or Renewed event with every transfer
\* answered while thread u runs a callout, no lease of which has t's
\* prefix, and the last callout that returned was for another prefix too.
DifferentPrefixes(t, u) ==
    /\ pc[t] = "done"
    /\ Assigning(frame[t])
    /\ frame[t].clean /\ Requests(frame[t].ops) # <<>>
    /\ Len(frame[t].pd_leases) = 1
    /\ pc[u] # "idle"
    /\ \A i \in DOMAIN frame[u].pd_leases :
           PrefixOf(frame[u].pd_leases[i]) # PrefixOf(frame[t].pd_leases[1])
    /\ \A i \in DOMAIN prev.events :
           PrefixOf(prev.events[i].lease) # PrefixOf(frame[t].pd_leases[1])

\* C15: a reconciliation that runs while another thread reconciles a
\* different prefix leaves the records of its own prefix as it would have
\* left them running by itself against the inventory it started with,
\* wherever the other thread's lookup and write fall between its own and
\* whatever they come to.
C15_NoInterference ==
    \A t \in Workers : \A u \in Workers \ {t} :
        DifferentPrefixes(t, u) =>
            RecordsOf(inventory, PrefixOf(frame[t].pd_leases[1]))
                = RecordsOf(Alone(g_cfg, FrameData(frame[t]),
                                  frame[t].pd_leases[1].valid_lft_,
                                  frame[t].wrote_at, frame[t].inv_before),
                            PrefixOf(frame[t].pd_leases[1]))

\* Both threads looked up before either wrote, and both created.
C15_Witness ==
    \E t \in Workers : \E u \in Workers \ {t} :
        /\ DifferentPrefixes(t, u)
        /\ DifferentPrefixes(u, t)
        /\ frame[t].inv_before = <<>> /\ frame[u].inv_before = <<>>
        /\ Requests(frame[t].ops) = <<"lookup", "create">>
        /\ Requests(frame[u].ops) = <<"lookup", "create">>
        /\ Len(inventory) = 2

\* Threads t and u have each finished an Assigned or Renewed event for
\* the same prefix, every transfer answered, both begun while the
\* inventory held no record of it and no other callout for it before.
SamePrefixRace(t, u) ==
    /\ pc[t] = "done" /\ pc[u] = "done"
    /\ Assigning(frame[t]) /\ Assigning(frame[u])
    /\ frame[t].clean /\ Requests(frame[t].ops) # <<>>
    /\ frame[u].clean /\ Requests(frame[u].ops) # <<>>
    /\ Len(frame[t].pd_leases) = 1 /\ Len(frame[u].pd_leases) = 1
    /\ PrefixOf(frame[t].pd_leases[1]) = PrefixOf(frame[u].pd_leases[1])
    /\ Matching(frame[t].inv_before, PrefixOf(frame[t].pd_leases[1])) = {}
    /\ Matching(frame[u].inv_before, PrefixOf(frame[t].pd_leases[1])) = {}
    /\ \A i \in DOMAIN prev.events :
           PrefixOf(prev.events[i].lease) # PrefixOf(frame[t].pd_leases[1])

\* The lookup of a frame returned not-found.
NotFound(f) == ~(f.existing_prefix_id > 0)

\* C16: of two calls racing for the same prefix, each call whose lookup
\* returned not-found issues a create, whatever the other call has written
\* since (nothing is compared at the write); when both lookups returned
\* not-found both create, and then the inventory holds two records of the
\* prefix when it does not refuse duplicates and one when it does; in
\* every other interleaving it holds one.
C16_SamePrefixRace ==
    \A t \in Workers : \A u \in Workers \ {t} :
        SamePrefixRace(t, u) =>
            /\ NotFound(frame[t]) => Requests(frame[t].ops) = <<"lookup", "create">>
            /\ ~NotFound(frame[t]) => Requests(frame[t].ops) = <<"lookup", "update">>
            /\ Cardinality(Matching(inventory, PrefixOf(frame[t].pd_leases[1])))
                   = IF NotFound(frame[t]) /\ NotFound(frame[u]) /\ ~unique
                     THEN 2 ELSE 1

\* Both lookups returned not-found, both calls created, and the inventory,
\* which refuses nothing, holds two records of the prefix.
C16_Witness ==
    \E t \in Workers : \E u \in Workers \ {t} :
        /\ SamePrefixRace(t, u)
        /\ ~unique
        /\ Requests(frame[t].ops) = <<"lookup", "create">>
        /\ Requests(frame[u].ops) = <<"lookup", "create">>
        /\ Cardinality(Matching(inventory, PrefixOf(frame[t].pd_leases[1]))) = 2

\* C17: the steps of a callout write no state of the process that
\* outlives the call: between load and unload every step leaves the
\* configuration object, its error text included, as it was, so no
\* callout writes what another callout reads or writes.
C17_NoSharedLocalState ==
    [][ (loaded /\ loaded') =>
            (g_cfg' = g_cfg /\ last_error_msg' = last_error_msg) ]_vars

\* The webhook posts among the requests of a frame.
WebhookPosts(f) == SelectSeq(f.ops, LAMBDA op : op.sink = "webhook")

\* C18: a failed webhook post is swallowed: whatever became of the
\* transfer, the step of the post leaves the callout where a delivered
\* post leaves it (same position, same frame apart from the note of the
\* outcome, so the same inventory calls follow), with no second post on
\* the wire, nothing thrown and the inventory untouched.
C18_WebhookFailureSwallowed ==
    [][ \A t \in DOMAIN pc :
          (pc[t] = "webhook" /\ pc'[t] # "webhook") =>
              LET ok == AfterWebhook(g_cfg, frame[t], "ok")
              IN  /\ frame'[t] = [ok.frame EXCEPT !.hook = frame'[t].hook]
                  /\ pc'[t] = ok.pc
                  /\ inventory' = inventory
                  /\ ~frame'[t].thrown
                  /\ Len(WebhookPosts(frame'[t])) <= 1 ]_vars

\* A callout whose webhook post was lost has gone on to the inventory:
\* it stands before its lookup, one post on the wire, nothing thrown.
C18_Witness ==
    \E t \in DOMAIN pc :
        /\ pc[t] = "lookup"
        /\ frame[t].hook = "lost_request"
        /\ Len(WebhookPosts(frame[t])) = 1
        /\ ~frame[t].thrown

\* The event of a frame is one the webhook sink is told of: an assignment
\* with PD leases, or the expiration of a PD lease.
Notifiable(f) ==
    \/ f.callout = "leases6_committed" /\ f.pd_leases # <<>>
    \/ f.callout = "lease6_expire" /\ f.leases6.leases[1].type_ = "PD"

\* The event of a frame is one the inventory is reconciled for: any
\* lifecycle event of a PD lease that passed the entry checks.
Reconcilable(f) ==
    \/ f.callout = "leases6_committed" /\ f.pd_leases # <<>>
    \/ /\ f.callout \in {"lease6_renew", "lease6_expire", "lease6_recover"}
       /\ f.leases6.leases[1].type_ = "PD"
       /\ (f.callout = "lease6_renew" => ~f.query6.null)

\* The posts of a frame that went to the configured webhook URL.
PostsTo(f, url) == SelectSeq(WebhookPosts(f), LAMBDA op : op.base = url)

\* C19: the two sinks run independently off the same event: at the end of
\* a callout the webhook post has gone to the webhook URL whenever the
\* webhook sink is enabled, whatever the inventory flag, and the
\* inventory has been queried whenever the inventory sink is enabled,
\* whatever the webhook flag.
C19_SinksIndependent ==
    \A t \in DOMAIN pc :
        pc[t] = "done" =>
            /\ (Notifiable(frame[t]) /\ g_cfg.enabled /\ g_cfg.url # <<>>)
                   => Len(PostsTo(frame[t], g_cfg.url)) = 1
            /\ (Reconcilable(frame[t]) /\ g_cfg.netbox_enabled)
                   => Requests(frame[t].ops) # <<>>

(***************************************************************************)
(* The derivation specification: buildAssignmentData applied to one query, *)
(* drawn from relay chains of every length up to MaxHops, with and         *)
(* without a RELAY_MSG option and a client identifier, and every kind of   *)
(* remote and local address.                                               *)
(***************************************************************************)
\* relay hops in one query
MaxHops == 2

\* The link-address and the peer-address a relay hop can carry.
LinkAddrs ==
    { ServerAddr,                                       \* 2001:db8::1
      AddrOf(<< 65152, 0, 0, 0, 0, 0, 0, 2 >>),         \* fe80::2
      ZeroAddr }
PeerAddrs ==
    { AddrOf(<< 65152, 0, 0, 0, 0, 0, 0, 1 >>),         \* fe80::1
      ZeroAddr }

\* The bytes of RelayInfo after the two addresses: relay_msg_len_ and the
\* option collection, empty or holding pointers of the allocator.
RestZero == Zeros(56)
RestPointers ==
    Zeros(8) \o << 32, 1, 160, 74, 213, 85, 0, 0 >>
    \o << 254, 128, 160, 74, 213, 85, 0, 0 >> \o Zeros(32)

Hops ==
    { [ msg_type_ |-> DHCPV6_RELAY_FORW, hop_count_ |-> 0,
        link_addr_ |-> l, peer_addr_ |-> p, rest |-> RestZero ] :
          l \in LinkAddrs, p \in PeerAddrs }
    \cup { [ msg_type_ |-> DHCPV6_RELAY_FORW, hop_count_ |-> 2,
             link_addr_ |-> ZeroAddr, peer_addr_ |-> ZeroAddr,
             rest |-> RestPointers ] }

\* A RELAY_MSG option: too short for an address, or a relay header with
\* its link-address and peer-address.
RelayMsgs ==
    { NoOption,
      [present |-> TRUE, data |-> << DHCPV6_REQUEST, 0, 0, 1 >>],
      [present |-> TRUE,
       data |-> << DHCPV6_RELAY_FORW, 0 >> \o ServerAddr
                \o AddrOf(<< 65152, 0, 0, 0, 0, 0, 0, 1 >>)] }

\* Client identifiers: none, DUID-LL and DUID-LLT with an Ethernet
\* address, DUID-UUID.
ClientIds ==
    { NoOption, ClientId,
      [present |-> TRUE,
       data |-> << 0, 1, 0, 1, 44, 1, 2, 3, 0, 17, 34, 51, 68, 85 >>],
      [present |-> TRUE, data |-> << 0, 4 >> \o Zeros(16)] }

DeriveQueries ==
    [ null : {FALSE}, type : {DHCPV6_REQUEST, DHCPV6_RELAY_FORW},
      rapid_commit : {FALSE}, clientid : ClientIds,
      relay_info_ : SeqsUpTo(Hops, MaxHops), relay_msg : RelayMsgs,
      remote_addr : { ZeroAddr, ClientAddr, ServerAddr },
      local_addr : { ZeroAddr, ServerAddr } ]

InitDerive ==
    /\ unique = FALSE
    /\ g_cfg = WebhookConfig
    /\ loaded = FALSE
    /\ nloads = 0
    /\ inventory = <<>>
    /\ now = Epoch0
    /\ nevents = 0
    /\ pc = [t \in Threads |-> "idle"]
    /\ frame = [t \in Threads |-> IdleFrame]
    /\ prev = Summary(IdleFrame)
    /\ returns = {}
    /\ last_error_msg = ""
    /\ derived \in { NotDerived(q) : q \in DeriveQueries }

\* buildAssignmentData is applied to the query.
Derive ==
    /\ ~derived.done
    /\ derived' = [ derived EXCEPT
                      !.done = TRUE,
                      !.data = buildAssignmentData(derived.query,
                                   CHOOSE l \in PdLeases : l.iaid_ = 1) ]
    /\ UNCHANGED << unique, g_cfg, loaded, nloads, inventory, now, nevents, pc,
                    frame, prev, returns, last_error_msg >>

NextDerive == Derive

SpecDerive == InitDerive /\ [][NextDerive]_vars

\* A text is the text of an address: hex digits and colons.
IsAddressText(text) ==
    /\ text # <<>>
    /\ \A i \in 1..Len(text) :
          \/ text[i] = ":"
          \/ \E d \in 1..16 : HexDigits[d] = text[i]

\* C20: address derivation is total with the empty string for what is
\* absent: each of the three derived fields of an AssignmentRecord is the
\* text of an address or the empty string.
C20_DerivationTotal ==
    derived.done =>
        \A field \in { derived.data.cpe_link_local, derived.data.router_ip,
                       derived.data.router_link_addr } :
            field = <<>> \/ IsAddressText(field)

\* An address of fe80::/10.
IsLinkLocal(addr) == addr[1] = 254 /\ addr[2] \in 128..191

\* The CPE link-local address the derivation order gives a query: hop 0's
\* peer-address when it is link-local, else the address made from an
\* Ethernet DUID, else nothing.
CpeByOrder(query) ==
    IF query.relay_info_ # <<>> /\ IsLinkLocal(query.relay_info_[1].peer_addr_)
    THEN toText(query.relay_info_[1].peer_addr_)
    ELSE DuidLinkLocal(query.clientid)

\* C21: the CPE link-local address of an AssignmentRecord follows the
\* derivation order: hop 0's link-local peer-address, otherwise the
\* address derived from a DUID-LLT or DUID-LL with Ethernet hardware
\* type, otherwise the empty string; the packet's source address is never
\* the value.
C21_CpeDerivationOrder ==
    derived.done => derived.data.cpe_link_local = CpeByOrder(derived.query)

\* C22: in every AssignmentRecord the CPE link-local address is empty or
\* its text starts with the link-local prefix fe80.
C22_CpeLinkLocalPrefix ==
    derived.done =>
        \/ derived.data.cpe_link_local = <<>>
        \/ StartsWith(derived.data.cpe_link_local, FE80)

\* A global-unicast address: not link-local, not multicast (ff00::/8), not
\* the unspecified address.
IsGlobalUnicast(addr) ==
    ~IsLinkLocal(addr) /\ addr[1] # 255 /\ ~isV6Zero(addr)

\* The router link-address the specification gives a query: hop 0's
\* link-address when it is global unicast, else nothing.
LinkByOrder(query) ==
    IF /\ query.relay_info_ # <<>>
       /\ IsGlobalUnicast(query.relay_info_[1].link_addr_)
    THEN toText(query.relay_info_[1].link_addr_)
    ELSE <<>>

\* C23: the router link-address of an AssignmentRecord is hop 0's
\* link-address when that is global unicast and is empty when it is
\* link-local, multicast or unspecified or when the relay chain is empty,
\* so that a non-empty value is always a global address.
C23_RouterLinkAddr ==
    derived.done => derived.data.router_link_addr = LinkByOrder(derived.query)

\* C24: the router IP of an AssignmentRecord is the packet's remote
\* address when the relay chain is non-empty and is empty when there is
\* no relay chain, whatever the remote address.
C24_RouterIp ==
    derived.done =>
        derived.data.router_ip =
            IF derived.query.relay_info_ # <<>>
            THEN toText(derived.query.remote_addr)
            ELSE <<>>

\* A client identifier that is a DUID-LLT or DUID-LL with Ethernet
\* hardware type and a whole MAC address.
IsEthernetDuid(clientid) ==
    /\ clientid.present
    /\ Len(clientid.data) >= 4
    /\ clientid.data[1] = 0 /\ clientid.data[2] \in {1, 3}
    /\ clientid.data[3] = 0 /\ clientid.data[4] = 1
    /\ Len(clientid.data) >= (IF clientid.data[2] = 1 THEN 8 ELSE 4) + 6

\* fe80:: followed by the modified EUI-64 of the MAC of an Ethernet DUID:
\* the universal/local bit inverted, ff fe between the third and the
\* fourth octet.
Eui64LinkLocal(clientid) ==
    LET off == IF clientid.data[2] = 1 THEN 8 ELSE 4
        mac == [ i \in 1..6 |-> clientid.data[off + i] ]
    IN  << 254, 128, 0, 0, 0, 0, 0, 0,
           IF (mac[1] \div 2) % 2 = 1 THEN mac[1] - 2 ELSE mac[1] + 2,
           mac[2], mac[3], 255, 254, mac[4], mac[5], mac[6] >>

\* C25: for every DUID-LL or DUID-LLT client identifier with Ethernet
\* hardware type the DUID-derived CPE link-local address is fe80::
\* followed by the modified EUI-64 of the MAC, in the text the standard
\* compression rules give that address.
C25_DuidDerivedAddress ==
    (derived.done /\ IsEthernetDuid(derived.query.clientid)) =>
        DuidLinkLocal(derived.query.clientid)
            = toText(Eui64LinkLocal(derived.query.clientid))

(***************************************************************************)
(* The lifetime specification: one event for one delegated prefix whose    *)
(* valid lifetime is anywhere in the range of its uint32_t, through the    *)
(* writes of pd_webhook.cc and those of NetBoxClient.                      *)
(***************************************************************************)
\* callout invocations in one behaviour of the lifetime specification
MaxLifetimeEvents == 1

\* Valid lifetimes: none, an hour, the last one whose expiry is an int at
\* the first event, the one after it, the largest signed 32-bit number.
Lifetimes ==
    { 0, 3600, INT_MAX - (Epoch0 + Tick), INT_MAX - (Epoch0 + Tick) + 1,
      INT_MAX }

LifetimeLeases == { Lease("PD", "2001:db8:1::", 56, 1, v) : v \in Lifetimes }

LifetimeArgs ==
    { << Request, ReplyPkt, [null |-> FALSE, leases |-> <<l>>] >> :
        l \in LifetimeLeases }

NextLifetime ==
    \/ load(ParamMaps)
    \/ unload
    \/ \E t \in Threads : leases6_committed(t, LifetimeArgs, MaxLifetimeEvents)
    \/ \E t \in Threads :
           lease6_renew(t, { << Renew, l >> : l \in LifetimeLeases },
                        MaxLifetimeEvents)
    \/ \E t \in Threads : lease6_recover(t, LifetimeLeases, MaxLifetimeEvents)
    \/ \E t \in Threads : WebhookPost(t)
    \/ \E t \in Threads : Lookup(t)
    \/ \E t \in Threads : Write(t)
    \/ \E t \in Threads : Return(t)

SpecLifetime == Init /\ [][NextLifetime]_vars

\* The active writes of a frame: its creates and its updates to active.
ActiveWrites(f) ==
    SelectSeq(f.ops, LAMBDA op : /\ op.sink = "netbox"
                                 /\ op.method \in {"POST", "PATCH"}
                                 /\ op.payload.status = "active")

\* Two numbers of a JSON text are the same number: they are written alike.
SameNumber(a, b) == ToString(a) = ToString(b)

\* C26: every active write sends as expiry the time of the reconciliation
\* plus the valid lifetime of the lease, for every valid lifetime of the
\* 32-bit range.
C26_ExpiryTimestamp ==
    \A t \in Threads :
        \A i \in DOMAIN ActiveWrites(frame[t]) :
            SameNumber(
                ActiveWrites(frame[t])[i].payload.custom_fields.dhcpv6_leasetime,
                StreamTime(ExpiresAt(frame[t].wrote_at,
                                     frame[t].pd_leases[1].valid_lft_)))

\* The names of the six custom fields.
CustomFieldNames ==
    { "dhcpv6_client_duid", "dhcpv6_iaid", "dhcpv6_cpe_link_local",
      "dhcpv6_router_ip", "dhcpv6_router_link_addr", "dhcpv6_leasetime" }

\* The custom fields cf are the six, and those of the AssignmentRecord data.
CarriesRecord(cf, data) ==
    /\ DOMAIN cf = CustomFieldNames
    /\ cf.dhcpv6_client_duid = data.client_duid
    /\ cf.dhcpv6_iaid = data.iaid
    /\ cf.dhcpv6_cpe_link_local = data.cpe_link_local
    /\ cf.dhcpv6_router_ip = data.router_ip
    /\ cf.dhcpv6_router_link_addr = data.router_link_addr

\* C27: every active write, create or update, carries all six custom
\* fields, none left out, and the five of the AssignmentRecord hold what
\* the record built for the lease of that same event holds.
C27_SixCustomFields ==
    [][ \A t \in Threads :
          \A i \in DOMAIN ActiveWrites([ops |-> NewOps(t)]) :
              CarriesRecord(ActiveWrites([ops |-> NewOps(t)])[i].payload.custom_fields,
                            FrameData(frame[t])) ]_vars

C27_Witness ==
    \E t \in Threads :
        /\ pc[t] = "done"
        /\ Requests(frame[t].ops) = <<"lookup", "create", "lookup", "update">>
        /\ \A i \in DOMAIN ActiveWrites(frame[t]) :
               ActiveWrites(frame[t])[i].payload.custom_fields.dhcpv6_client_duid # <<>>

(***************************************************************************)
(* The timeout specification: load with a timeout-ms of every kind, then   *)
(* one event of each callout with both sinks configured.                   *)
(***************************************************************************)
\* callout invocations in one behaviour of the timeout specification
MaxTimeoutEvents == 1

\* timeout-ms: a positive integer, the smallest one, zero, a negative
\* integer, a string.
TimeoutElements ==
    { IntEl(500), IntEl(1), IntEl(0), IntEl(-1), StrEl(<<"500">>) }

\* Both sinks configured, and timeout-ms absent or any of TimeoutElements;
\* no parameters at all.
TimeoutParamMaps ==
    LET both == "webhook-url" :> StrEl(HookUrl) @@ "netbox-url" :> StrEl(<<Host>>)
                @@ "netbox-token" :> StrEl(Token)
                @@ "netbox-enabled" :> BoolEl(TRUE)
    IN  { NullParams, Params(both) }
        \cup { Params(both @@ "timeout-ms" :> el) : el \in TimeoutElements }

NextTimeout ==
    \/ load(TimeoutParamMaps)
    \/ unload
    \/ \E t \in Threads : leases6_committed(t, AssignedArgs, MaxTimeoutEvents)
    \/ \E t \in Threads : lease6_renew(t, RenewedArgs, MaxTimeoutEvents)
    \/ \E t \in Threads : lease6_expire(t, MaxTimeoutEvents)
    \/ \E t \in Threads : lease6_recover(t, PdLeases, MaxTimeoutEvents)
    \/ \E t \in Threads : WebhookPost(t)
    \/ \E t \in Threads : Lookup(t)
    \/ \E t \in Threads : Write(t)
    \/ \E t \in Threads : Return(t)

SpecTimeout == Init /\ [][NextTimeout]_vars

\* The timeout a parameter map asks for: its timeout-ms when that is a
\* positive integer, the default otherwise.
AskedTimeout(params) ==
    IF /\ params.is_map
       /\ "timeout-ms" \in DOMAIN params.m
       /\ params.m["timeout-ms"].type = "integer"
       /\ params.m["timeout-ms"].i >= 1
    THEN params.m["timeout-ms"].i
    ELSE 2000

\* C28: after load with any parameter map the timeout is strictly
\* positive, the default of 2000 ms when timeout-ms is absent, not an
\* integer or not positive, and every request put on the wire (lookup,
\* write, webhook post) carries that timeout.
C28_BoundedTimeout ==
    /\ loaded =>
           /\ g_cfg.timeout_ms > 0
           /\ \E params \in TimeoutParamMaps :
                  /\ g_cfg = LoadedConfig(params)
                  /\ g_cfg.timeout_ms = AskedTimeout(params)
    /\ \A params \in TimeoutParamMaps :
           LoadedConfig(params).timeout_ms = AskedTimeout(params)
    /\ \A t \in Threads :
           \A i \in DOMAIN frame[t].ops :
               /\ frame[t].ops[i].timeout_ms > 0
               /\ frame[t].ops[i].timeout_ms = g_cfg.timeout_ms

C28_Witness ==
    \E t \in Threads :
        /\ pc[t] = "done"
        /\ g_cfg = LoadedConfig(Params("webhook-url" :> StrEl(HookUrl)
                       @@ "netbox-url" :> StrEl(<<Host>>)
                       @@ "netbox-token" :> StrEl(Token)
                       @@ "netbox-enabled" :> BoolEl(TRUE)
                       @@ "timeout-ms" :> IntEl(-1)))
        /\ { OpKind(frame[t].ops[i]) : i \in DOMAIN frame[t].ops }
               = {"webhook", "lookup", "create"}

\* The webhook of frame f is one post for the whole batch of its PD leases.
OnePostForBatch(f) ==
    /\ Len(WebhookPosts(f)) = 1
    /\ WebhookPosts(f)[1].method = "POST"
    /\ Len(WebhookPosts(f)[1].payload.leases) = Len(f.pd_leases)
    /\ \A i \in DOMAIN f.pd_leases :
           /\ WebhookPosts(f)[1].payload.leases[i].prefix = f.pd_leases[i].addr_
           /\ WebhookPosts(f)[1].payload.leases[i].iaid = f.pd_leases[i].iaid_

\* C29: a committed event that passes the trigger filter with at least one
\* PD lease, the webhook configured, sends exactly one post for the whole
\* batch; its body has the keys event, msg_type, reply_type, client_duid,
\* link_addr, peer_addr and leases, and leases lists every PD lease.
C29_WebhookBody ==
    \A t \in Threads :
        ( /\ frame[t].callout = "leases6_committed"
          /\ frame[t].pd_leases # <<>>
          /\ g_cfg.url # <<>>
          /\ pc[t] \in {"lookup", "write", "done"} )
        => /\ OnePostForBatch(frame[t])
           /\ DOMAIN WebhookPosts(frame[t])[1].payload
                  = { "event", "msg_type", "reply_type", "client_duid",
                      "link_addr", "peer_addr", "leases" }

\* The lookup of thread t is the step being taken, and its transfer
\* failed or brought a body that is not the search result.
LookupFails(t) ==
    /\ pc[t] = "lookup"
    /\ frame[t].mode = "active"
    /\ NewOps(t) # <<>>
    /\ frame[t].clean /\ ~frame'[t].clean

\* C30: a failed lookup is not taken for not-found: when the lookup of a
\* reconciliation fails, the reconciliation of that lease is abandoned and
\* no write follows the lookup, so that no create can add a second record
\* of a prefix that has one.
C30_FailedLookupAbandons ==
    [][ \A t \in Threads :
          LookupFails(t) =>
              /\ pc'[t] # "write"
              /\ frame'[t].i # frame[t].i \/ pc'[t] = "done" ]_vars

\* C31: after load with any parameter map netbox_enabled is true only if
\* netbox-url and netbox-token are both non-empty, and netbox_enabled
\* implies enabled; before load and after unload the configuration is the
\* default one, both sinks disabled.
C31_ConfigInvariant ==
    /\ loaded =>
           /\ g_cfg.netbox_enabled =>
                  /\ g_cfg.netbox_url # <<>>
                  /\ g_cfg.netbox_token # <<>>
                  /\ g_cfg.enabled
           /\ \E params \in ParamMaps : g_cfg = LoadedConfig(params)
    /\ ~loaded =>
           /\ g_cfg = WebhookConfig
           /\ ~g_cfg.enabled /\ ~g_cfg.netbox_enabled
           /\ g_cfg.url = <<>> /\ g_cfg.netbox_url = <<>>
           /\ g_cfg.netbox_token = <<>>

\* The library was loaded and is unloaded again.
C31_Witness == ~loaded /\ nloads = 1 /\ returns = {0}

\* C32: a disabled sink is never contacted: no request of a callout goes
\* to the inventory while netbox_enabled is false, none to the webhook
\* while the webhook URL is empty, and with both sinks disabled a callout
\* puts nothing on the wire.
C32_DisabledSinkSilent ==
    \A t \in Threads :
        /\ \A i \in DOMAIN frame[t].ops :
               /\ frame[t].ops[i].sink = "netbox" => g_cfg.netbox_enabled
               /\ frame[t].ops[i].sink = "webhook" => g_cfg.url # <<>>
        /\ (~g_cfg.netbox_enabled /\ g_cfg.url = <<>>) => frame[t].ops = <<>>

\* A committed event with PD leases is over, the webhook configured and the
\* inventory not: the post is all that was sent.
C32_Witness ==
    \E t \in Threads :
        /\ pc[t] = "done"
        /\ frame[t].callout = "leases6_committed"
        /\ frame[t].pd_leases # <<>>
        /\ ~g_cfg.netbox_enabled /\ g_cfg.url # <<>>
        /\ Len(frame[t].ops) = 1
        /\ frame[t].ops[1].sink = "webhook"

(***************************************************************************)
(* The termination specification: one callout of the sources with any      *)
(* arguments, every transfer returning or timing out (the timeout of C28   *)
(* bounds each), and the callout going on from there.                      *)
(***************************************************************************)
\* Where a callout can be.
Positions == {"idle", "webhook", "lookup", "write", "done"}

\* A running callout leaves the position it is at: the transfer it waits
\* for has returned or timed out, or it returns to the host.
Advance(t) ==
    /\ pc[t] # "idle"
    /\ \E p \in Positions \ {pc[t]} : pc' = [pc EXCEPT ![t] = p]

SpecTermination ==
    /\ Init
    /\ [][NextEntry]_vars
    /\ \A t \in Threads : WF_pc(Advance(t))

\* The requests of frame f stay within what its callout may send: at most
\* one webhook post (none for a renewal) and at most one lookup and one
\* write for each PD lease.
WithinBudget(f) ==
    /\ Len(WebhookPosts(f)) <= (IF f.callout = "lease6_renew" THEN 0 ELSE 1)
    /\ f.callout = "lease6_renew" => Len(f.pd_leases) <= 1
    /\ Count(Requests(f.ops), "lookup") <= Len(f.pd_leases)
    /\ Count(Requests(f.ops), "create") + Count(Requests(f.ops), "update")
           <= Len(f.pd_leases)

\* C33: every invocation of a callout returns, and until it does it has
\* sent at most one webhook post and at most one lookup and one write for
\* each PD lease of its batch, a renewal at most one lookup and one write.
C33_CalloutTerminates ==
    /\ [][\A t \in Threads : WithinBudget(frame'[t])]_vars
    /\ \A t \in Threads : (pc[t] # "idle") ~> (pc[t] = "idle")

\* A committed event for two PD leases has returned after their four
\* inventory requests.
C33_Witness ==
    /\ Idle
    /\ prev.callout = "leases6_committed"
    /\ Len(prev.events) = 2
    /\ Len(prev.requests) = 4

\* How a lookup result classifies the prefix: found with an id, not found
\* (the id 0), or no result at all because the lookup threw.
Classified(r) ==
    [ thrown |-> r.thrown, id |-> IF ~r.thrown /\ r.val > 0 THEN r.val ELSE 0 ]

\* The kinds of the requests of a sequence of requests.
Kinds(ops) == [ i \in DOMAIN ops |-> OpKind(ops[i]) ]

\* The requests one reconciliation of an implementation issues, the lookup
\* having the given outcome and the write being answered: those of the
\* lookup, then those of the write its result decides, none after a throw.
ReconcileKinds(impl, cfg, data, valid_lft, time, outcome, inv) ==
    LET r == LookupBy(impl, cfg, data, outcome, inv)
    IN  Kinds(r.ops)
        \o (IF r.thrown THEN <<>>
            ELSE Kinds(WriteBy(impl, "active", cfg, r.val, data, valid_lft, time,
                               "ok", r.inventory).ops))

\* C34: the static sendNetBoxRequest and NetBoxClient::sendNetBoxRequest
\* are equivalent: for every inventory and every outcome of the lookup
\* they classify the prefix alike (found with the same id, or not found)
\* and issue the same requests, a lookup then an update of the id found
\* or a create.
C34_ImplementationsEquivalent ==
    \A t \in Threads :
        (pc[t] = "lookup" /\ frame[t].mode = "active" /\ Configured(g_cfg)) =>
            LET data == FrameData(frame[t])
                valid_lft == frame[t].pd_leases[frame[t].i].valid_lft_
            IN  \A outcome \in NetOutcomes :
                    /\ Classified(LookupBy("static", g_cfg, data, outcome, inventory))
                           = Classified(LookupBy("client", g_cfg, data, outcome,
                                                 inventory))
                    /\ ReconcileKinds("static", g_cfg, data, valid_lft, now,
                                      outcome, inventory)
                           = ReconcileKinds("client", g_cfg, data, valid_lft, now,
                                            outcome, inventory)

====
